---- MODULE Spec2Model ----
(***************************************************************************)
(* ssh-agent-wsl: the Linux-side proxy (src/linux/main.c).                 *)
(*                                                                         *)
(* The model is the process that runs do_agent_loop: its globals, the      *)
(* locals of do_agent_loop / agent_query / start_win32_helper that live    *)
(* across a blocking call, and the environment it talks to (clients, the   *)
(* win32 helper process, the optional subcommand, the controlling tty,     *)
(* the file system paths it created).                                      *)
(*                                                                         *)
(* The main flow is a program counter `pc`; every step is one system call  *)
(* together with the code up to the next blocking call.  cleanup_signal    *)
(* is installed with signal(2) and therefore runs asynchronously, between  *)
(* any two steps of the main flow.                                         *)
(*                                                                         *)
(* Values the program can no longer read are reset: the locals of a        *)
(* function when it returns, the snapshot sets when the loop goes back to  *)
(* select, the whole process image at exit.                                *)
(*                                                                         *)
(* Bytes are not modelled one by one.  A frame is (pfx, tag): pfx is the   *)
(* value of its 4-byte big-endian prefix, tag names the request it is (or  *)
(* answers): <<connection, sequence number>>.  Counters (recv, send, rem)  *)
(* are the byte counts of the code.                                        *)
(***************************************************************************)
EXTENDS Integers, Sequences, FiniteSets, TLC

(***************************************************************************)
(* Bounds of the model (not program constants).                            *)
(***************************************************************************)
\* connections accepted over a run
MaxConns == 2
\* client frames begun over a run (all connections together)
MaxReqs == 2
\* helper processes spawned over a run
MaxSpawns == 2
\* largest partial transfer a system call returns besides "all that was asked"
IoChunk == 1

(***************************************************************************)
(* Program constants.                                                      *)
(***************************************************************************)
\* common.h (not under src/): size of struct fd_buf.buf, main.c:53
AGENT_MAX_MSGLEN == 8192
\* <sys/select.h>; bound of FD_FOREACH and of the accept check, main.c:46,586
FD_SETSIZE == 1024
\* exit status of the "unknown child" branch, main.c:171
UNKNOWN_CHILD_STATUS == 55
\* the listening socket: descriptors 0,1,2 are open when main() calls socket()
sockfd == 3

\* TLC's integers end at 2^31 - 1.  A C value of 2^31 or more (a uint32_t or
\* size_t) is represented by Huge: every quantity the code compares such a
\* value with is at most AGENT_MAX_MSGLEN, so each comparison comes out as in C.
Huge == 32767 * 65536 + 65535

NoTag == <<0, 0>>

SockPath == "/tmp/ssh-XXXXXX/agent.pid"
TempDir == "/tmp/ssh-XXXXXX"
\* paths a command line or SSH_AUTH_SOCK may name: a short one, and one longer
\* than sockaddr_un.sun_path
APath == "/run/user/1000/agent.sock"
LongPath == "/home/user/very/long/directory/name/that/goes/on/and/on/for/more/than/one/hundred/and/eight/bytes/ssh-agent.socket"
\* <sys/un.h>: sizeof(addr.sun_path), main.c:205,253
SUN_PATH_SIZE == 108

\* pids handed out by posix_spawn: the subcommand first, then the helpers
SpawnedPid(n) == 100 + n
SubPid == SpawnedPid(0)
\* the pid of a child posix_spawn made and reaped itself because exec failed
FailedPid == SpawnedPid(MaxSpawns + 1)

Min(S) == CHOOSE x \in S : \A y \in S : x <= y

VARIABLES
  \* ---- globals of main.c
  opt_no_exit,        \* main.c:58   (-b)
  tty_gone,           \* main.c:57
  subcommand_pid,     \* main.c:60
  win32_pid,          \* main.c:61
  win32_in,           \* main.c:62
  win32_out,          \* main.c:63
  cleanup_tempdir,    \* main.c:66
  cleanup_sockpath,   \* main.c:67
  chld_handler,       \* whether main() called signal(SIGCHLD, cleanup_signal)
  \* ---- do_agent_loop
  pc,                 \* position of the main flow
  fd,                 \* the descriptor FD_FOREACH is at
  read_set, write_set,
  do_read_set, do_write_set,   \* what FD_FOREACH has still to visit
  ready,              \* history: the connections select reported readable,
                      \* in the order their sockets became readable
  bufs,               \* fd -> struct fd_buf, for the non-NULL entries
  \* ---- agent_query / start_win32_helper / cleanup_win32(1)
  rem, off, first_done,    \* agent_query locals (off = bufp - buf)
  ret,                \* where the running callee returns to
  \* ---- the process itself
  exit_status,        \* -1 while running
  exit_path,          \* which exit call ended the process
  fds,                \* open descriptors of the process
  \* ---- environment
  helper,             \* the helper last spawned: [st, pid, inq, idle, eof, hs]
  sub,                \* [st, ws]: the subcommand and its wait status
  sigchld,            \* pids whose exit raised a still pending SIGCHLD
  tty_present,        \* whether open("/dev/tty") still finds a terminal
  fs,                 \* paths that exist
  start,              \* main()'s locals and what it found and made on the file
                      \* system: [mode, sockpath, opt_reuse, from_env, reused,
                      \* kind, made], and the variables it emits
  \* ---- history (not read by the program)
  owner,              \* fd -> connection number
  nconn, nreq, nspawn,
  reqs,               \* connection -> frames begun
  queries,            \* tag -> agent_query calls made for it
  call,               \* the running agent_query: [epipes, early, restarts, roff]
  delivered,          \* connection -> replies completely sent
  hist,               \* the SIGCHLD that ended the process: [chld, neither],
                      \* the pid the terminal check signalled: term, and the
                      \* frame last found to hold more than it declares: over
  \* ---- the helper program (win32/agent.c)
  agent               \* one call of its agent_query: [pc, buf, hPipe, out, failed]

vars == <<opt_no_exit, tty_gone, subcommand_pid, win32_pid, win32_in, win32_out,
          cleanup_tempdir, cleanup_sockpath, chld_handler,
          pc, fd, read_set, write_set, do_read_set, do_write_set, ready, bufs,
          rem, off, first_done, ret, exit_status, exit_path, fds,
          helper, sub, sigchld, tty_present, fs, start,
          owner, nconn, nreq, nspawn, reqs, queries, call, delivered, hist, agent>>

optv  == <<opt_no_exit, subcommand_pid, chld_handler, cleanup_tempdir, cleanup_sockpath,
           start, agent>>
w32v  == <<win32_pid, win32_in, win32_out>>
setv  == <<read_set, write_set, do_read_set, do_write_set, ready>>
aqv   == <<rem, off, first_done, ret, call>>
exitv == <<exit_status, exit_path, fs, tty_gone, hist>>
cntv  == <<nconn, nreq, nspawn, reqs>>
envv  == <<sub, sigchld, tty_present>>

(***************************************************************************)
(* Frames.                                                                 *)
(***************************************************************************)
\* the four bytes of a big-endian uint32_t (htonl), for n < 2^31
Be32(n) == <<(n \div 16777216) % 256, (n \div 65536) % 256, (n \div 256) % 256, n % 256>>

\* the two largest prefixes whose sum with 4 wraps in 32 bits: 2^32 - 1
\* (msglen 3) and 2^32 - 4 (msglen 0)
WrapPfxs == {<<255, 255, 255, 255>>, <<255, 255, 255, 252>>}
\* prefixes a client puts on its frames: a small frame, one whose declared
\* length is one more than the buffer holds, and the wrapping ones
ReqPfxs == {Be32(1), Be32(AGENT_MAX_MSGLEN - 3)} \cup WrapPfxs
\* prefixes the helper puts on its replies: the 5-byte failure reply of
\* win32/agent.c:79, an oversize one, and the wrapping ones
RepPfxs == {Be32(1), Be32(AGENT_MAX_MSGLEN - 3)} \cup WrapPfxs

\* common.h msglen(): 4 + ntohl(first four bytes), in uint32_t.  The header is
\* not under src/; win32/agent.c:79,109 copies msglen(reply_error) bytes of the
\* 5-byte array {0,0,0,1,code}, which fixes it to prefix + 4.  The sum is
\* taken in two 16-bit halves so that it wraps at 2^32.
msglen(b) ==
  LET hi == b.pfx[1] * 256 + b.pfx[2]
      lo == b.pfx[3] * 256 + b.pfx[4] + 4
      mlo == lo % 65536
      mhi == (hi + lo \div 65536) % 65536
  IN IF mhi >= 32768 THEN Huge ELSE mhi * 65536 + mlo

\* calloc(1, sizeof(struct fd_buf)), main.c:593.  parts and nsent are history:
\* whether one recv() call built the frame (1) or several (2), and the bytes
\* of the reply handed to send().
NewBuf == [recv |-> 0, send |-> 0, pfx |-> Be32(0), tag |-> NoTag, parts |-> 0, nsent |-> 0]

\* the lowest descriptor not in use, as accept and pipe hand out
LowFd(S) == Min({n \in 0..Cardinality(S) : n \notin S})

\* sizes a transfer of at most `room` bytes starting at position `pos` may
\* return: everything asked for, a size that ends exactly at one of `stops`,
\* or a partial size up to IoChunk within the first 4 + IoChunk bytes
Sizes(pos, room, stops) ==
  {k \in 1..(IF room < IoChunk THEN room ELSE IoChunk) : pos + k <= 4 + IoChunk}
  \cup {s - pos : s \in {t \in stops : t - pos >= 1 /\ t - pos <= room}}
  \cup (IF room >= 1 THEN {room} ELSE {})

(***************************************************************************)
(* <sys/wait.h> on a wait status, as wait_subcommand uses them             *)
(* (main.c:139-144).  A status is the int waitpid stores.                  *)
(***************************************************************************)
WTERMSIG(s) == s % 128
WIFEXITED(s) == WTERMSIG(s) = 0
WEXITSTATUS(s) == (s \div 256) % 256
WIFSIGNALED(s) == WTERMSIG(s) \in 1..126

\* wait statuses the subcommand may end with: exit(0), exit(3), SIGKILL
SubEnds == {0, 3 * 256, 9}

\* main.c:131-147.  `r` is what waitpid returned, `ws` the status it stored;
\* status starts at -1 and waitpid stores nothing unless it returns a pid.
wait_subcommand(r, ws) ==
  LET status == IF r > 0 THEN ws ELSE -1 IN
  IF r < 0 THEN status
  ELSE IF WIFEXITED(status) THEN WEXITSTATUS(status)
  ELSE IF WIFSIGNALED(status) THEN 128 + WTERMSIG(status)
  ELSE 0

\* waitpid(subcommand_pid, &status, WNOHANG): the pid when the child is a
\* zombie, 0 while it runs, -1 (ECHILD) when there is none
WaitSubNoHang == IF sub.st = "zombie" THEN subcommand_pid
                 ELSE IF sub.st = "running" THEN 0 ELSE -1

\* main.c:294 without the test (a faulty variant, told apart by
\* C18_OneHelperAndNoOpWhenRunning)
HelperRunning_Never == FALSE
\* main.c:294: start_win32_helper's "already running" test
HelperRunning == win32_in >= 0 /\ win32_out >= 0

\* the test made against the wrong bound, so that a low descriptor is
\* neither closed nor invalidated (a faulty variant, told apart by
\* C19_HelperDescriptorsNeverHalfOpen)
Closed_AboveFive(d) == IF d > 5 THEN -1 ELSE d
\* main.c:113-121 for one descriptor: what cleanup_win32 leaves in it
Closed(d) == IF d > 0 THEN -1 ELSE d
\* the descriptors cleanup_win32 closes
ClosedFds == {d \in {win32_in, win32_out} : d > 0}

NoCall == [epipes |-> 0, early |-> 0, restarts |-> 0, roff |-> 0]
NoHelper == [st |-> "none", pid |-> 0, inq |-> <<>>, idle |-> FALSE, eof |-> FALSE,
             hs |-> FALSE]
NoHist == [chld |-> {}, neither |-> FALSE, term |-> 0, over |-> NoTag]
\* the helper program is not looked at
NoAgent == [pc |-> "none", buf |-> [head |-> <<>>, size |-> 0, holds |-> "nothing"],
            hPipe |-> "invalid", out |-> TRUE, failed |-> "none"]

\* The command lines the model starts from: <<mode, -b given, -a given>>.
\* "daemon" is the default launch, "debug" is -d, "subcommand" is a launch
\* with a command to run.
Launches == {<<"daemon", FALSE, FALSE>>, <<"daemon", TRUE, FALSE>>,
             <<"debug", FALSE, FALSE>>, <<"debug", FALSE, TRUE>>,
             <<"subcommand", FALSE, FALSE>>}

\* the state in which main() enters do_agent_loop (main.c:1007-1009)
Init ==
  /\ \E l \in Launches :
       /\ opt_no_exit = l[2]
       /\ subcommand_pid = IF l[1] = "subcommand" THEN SubPid ELSE 0
       \* main.c:932, 994: not installed in debug mode without subcommand
       /\ chld_handler = (l[1] # "debug")
       /\ sub = [st |-> IF l[1] = "subcommand" THEN "running" ELSE "none", ws |-> 0]
       \* -a SOCKET leaves cleanup_tempdir empty, main.c:911-912
       /\ cleanup_tempdir = IF l[3] THEN "" ELSE TempDir
  /\ tty_gone = FALSE
  /\ win32_pid = 0 /\ win32_in = -1 /\ win32_out = -1
  /\ cleanup_sockpath = SockPath
  /\ fs = {SockPath} \cup ({cleanup_tempdir} \ {""})
  /\ start = [mode |-> "loop", sockpath |-> SockPath, opt_reuse |-> FALSE,
               from_env |-> FALSE, reused |-> FALSE, kind |-> <<>>, made |-> fs,
               emits |-> {"SSH_AUTH_SOCK", "SSH_AGENT_PID"}]
  /\ pc = "select" /\ fd = 0
  /\ read_set = {sockfd} /\ write_set = {}
  /\ do_read_set = {} /\ do_write_set = {} /\ ready = <<>>
  /\ bufs = <<>>
  /\ rem = 0 /\ off = 0 /\ first_done = FALSE /\ ret = "none"
  /\ exit_status = -1 /\ exit_path = "none"
  \* stdin, stderr, the listening socket; main.c:1004 closed stdout
  /\ fds = {0, 2, sockfd}
  /\ helper = NoHelper
  /\ sigchld = {}
  /\ tty_present = TRUE
  /\ owner = <<>> /\ nconn = 0 /\ nreq = 0 /\ nspawn = 0
  /\ reqs = [c \in 1..MaxConns |-> 0]
  /\ queries = <<>>
  /\ call = NoCall
  /\ delivered = [c \in 1..MaxConns |-> <<>>]
  /\ hist = NoHist
  /\ agent = NoAgent

(***************************************************************************)
(* Leaving the process.                                                    *)
(***************************************************************************)
\* exit(status): the process image is gone
Gone(status, path) ==
  /\ exit_status' = status
  /\ exit_path' = path
  /\ pc' = "exited"
  /\ fd' = 0
  /\ read_set' = {} /\ write_set' = {} /\ do_read_set' = {} /\ do_write_set' = {}
  /\ ready' = <<>>
  /\ bufs' = <<>> /\ owner' = <<>>
  /\ rem' = 0 /\ off' = 0 /\ first_done' = FALSE /\ ret' = "none" /\ call' = NoCall
  /\ fds' = {}
  /\ win32_pid' = 0 /\ win32_in' = -1 /\ win32_out' = -1
  /\ tty_gone' = FALSE
  /\ sigchld' = {}

\* main.c:93-99 without the rmdir (a faulty variant, told apart by
\* C22_ExitsOnTheFirstTimeoutTick)
cleanup_exit_KeepDir(status, path) ==
  /\ fs' = fs \ {cleanup_sockpath}
  /\ Gone(status, path)

\* main.c:93-99: unlink(cleanup_sockpath); rmdir(cleanup_tempdir); exit(status).
\* rmdir succeeds because the socket was the directory's only entry.
cleanup_exit(status, path) ==
  /\ fs' = fs \ {cleanup_sockpath, cleanup_tempdir}
  /\ Gone(status, path)

\* err(3): exit(status) with no cleanup (main.c:533)
err_exit(status, path) ==
  /\ fs' = fs
  /\ Gone(status, path)

\* what an exit leaves alone
ExitKeeps == <<optv, helper, sub, tty_present, cntv, queries, delivered>>

Running == pc # "exited"

\* The main flow is at p.  A SIGCHLD raised by the subcommand ends the process
\* whatever the main flow does meanwhile (main.c:158), and the main flow
\* reads nothing the subcommand's end changes, so the steps it could take
\* while that signal is pending are left out.  The SIGCHLD of a child that
\* posix_spawn reaped is delivered when posix_spawn unblocks signals, before
\* the main flow goes on.
At(p) == pc = p /\ ~(chld_handler /\ sigchld \cap {subcommand_pid, FailedPid} # {})

(***************************************************************************)
(* do_agent_loop (main.c:550-632).                                         *)
(***************************************************************************)
\* FD_FOREACH (main.c:45-47) over what is left of the two snapshots: the
\* lowest descriptor of the read snapshot, then of the write snapshot, then
\* back to select (main.c:561)
\* FD_FOREACH counting down from FD_SETSIZE - 1 (a faulty variant, told
\* apart by C21_ServedInDescriptorOrder)
NextFd_Highest(S) == CHOOSE x \in S : \A y \in S : x >= y
\* main.c:45-47: the descriptor FD_FOREACH comes to next
NextFd(S) == Min(S)

\* the orders in which the sockets of S may have become readable
Orders(S) == {q \in [1..Cardinality(S) -> S] : \A i, j \in DOMAIN q : q[i] = q[j] => i = j}

\* q is the readiness order of the read snapshot; it is dropped with it
ContinueWith(R, W, q) ==
  /\ do_read_set' = R
  /\ do_write_set' = W
  /\ ready' = IF R # {} THEN q ELSE <<>>
  /\ pc' = IF R # {} THEN "recv" ELSE IF W # {} THEN "send" ELSE "select"
  /\ fd' = IF R # {} THEN NextFd(R) ELSE IF W # {} THEN NextFd(W) ELSE 0

Continue(R, W) == ContinueWith(R, W, ready)

\* FD_ZERO in place of FD_CLR for the connections (a faulty variant, told
\* apart by C12_OthersUntouched)
Drop_Every(f, set) == set \ DOMAIN bufs
\* the entry is kept: no free, no bufs[fd] = NULL (a faulty variant, told
\* apart by C13_FaultDropsOnlyThatConnection)
Without_Kept(fn, f) == fn
\* main.c:607-612 / 621-626 with res < 0: FD_CLR, close, free, bufs[fd] = NULL
Drop(f, set) == set \ {f}
Without(fn, f) == [x \in DOMAIN fn \ {f} |-> fn[x]]

\* main.c:571-602: select returned ready_fds > 0 with R readable and W
\* writable; if the listening socket is readable, accept4 and register the
\* connection.  accept4 returns the lowest free descriptor, or -1.
SelectReady ==
  /\ At("select")
  /\ \E R \in SUBSET read_set, W \in SUBSET write_set :
       /\ R \cup W # {}
       /\ IF sockfd \in R
          THEN \/ /\ nconn < MaxConns
                  /\ LET s == LowFd(fds) IN
                     IF s >= FD_SETSIZE
                     THEN UNCHANGED <<fds, bufs, read_set, owner, nconn>>
                     ELSE /\ fds' = fds \cup {s}
                          /\ bufs' = [x \in DOMAIN bufs \cup {s} |->
                                        IF x = s THEN NewBuf ELSE bufs[x]]
                          /\ read_set' = read_set \cup {s}
                          /\ owner' = [x \in DOMAIN owner \cup {s} |->
                                        IF x = s THEN nconn + 1 ELSE owner[x]]
                          /\ nconn' = nconn + 1
               \* s < 0: warn("accept")
               \/ UNCHANGED <<fds, bufs, read_set, owner, nconn>>
          ELSE UNCHANGED <<fds, bufs, read_set, owner, nconn>>
       /\ \E q \in Orders(R \ {sockfd}) : ContinueWith(R \ {sockfd}, W, q)
  /\ UNCHANGED <<optv, w32v, write_set, aqv, exitv, helper, envv,
                 nreq, nspawn, reqs, queries, delivered>>

\* main.c:571-576: select fails with something other than EINTR
SelectFail ==
  /\ At("select")
  /\ cleanup_exit(1, "syscall")
  /\ hist' = hist
  /\ UNCHANGED ExitKeeps

\* check_tty_gone without the test of main.c:525 (a faulty variant, told
\* apart by C31_SignalledHelperStaysDown)
CheckSuppressed_Never == FALSE
\* main.c:525: with -b the check is not made again once the loss is recorded
CheckSuppressed == tty_gone /\ opt_no_exit

\* main.c:578-582 with check_tty_gone, main.c:521-548: select timed out.
\* Only open("/dev/tty") looks at the terminal, so its going away is taken
\* at the call that finds it gone.  With -b and a live win32_pid the kill is
\* a step of its own, because cleanup_signal may run between the test of
\* win32_pid and the call.
TtyGoneTick ==
  /\ At("select")
  /\ IF CheckSuppressed
     THEN UNCHANGED vars
     ELSE \E present \in (IF tty_present THEN BOOLEAN ELSE {FALSE}) :
          /\ tty_present' = present
          /\ IF present
             THEN UNCHANGED <<optv, w32v, pc, fd, setv, bufs, aqv, exitv, fds, helper,
                              sub, sigchld, owner, cntv, queries, delivered>>
             ELSE IF opt_no_exit
             THEN /\ IF win32_pid > 0
                     THEN pc' = "tty_kill" /\ tty_gone' = tty_gone
                     ELSE pc' = pc /\ tty_gone' = TRUE
                  /\ UNCHANGED <<optv, w32v, fd, setv, bufs, aqv, exit_status, exit_path,
                                 fs, hist, fds, helper, sub, sigchld, owner, cntv,
                                 queries, delivered>>
             ELSE /\ cleanup_exit(0, "tty")
                  /\ hist' = hist
                  /\ UNCHANGED <<optv, helper, sub, cntv, queries, delivered>>

\* main.c:532-534: kill(win32_pid, SIGTERM).  If cleanup_signal has reaped the
\* helper since the test, the call is made with the pid read for the test
\* (ESRCH, err(1, ...)) or with the zero now stored, which signals the
\* caller's own process group and so runs cleanup_signal(SIGTERM).
TtyKill ==
  /\ At("tty_kill")
  /\ IF win32_pid > 0
     THEN /\ helper' = IF helper.st \in {"starting", "up"}
                       THEN [helper EXCEPT !.st = "zombie", !.inq = <<>>]
                       ELSE helper
          /\ sigchld' = IF helper.st \in {"starting", "up"} /\ chld_handler
                        THEN sigchld \cup {helper.pid} ELSE sigchld
          /\ tty_gone' = TRUE
          /\ hist' = [hist EXCEPT !.term = win32_pid]
          /\ pc' = "select"
          /\ UNCHANGED <<optv, w32v, fd, setv, bufs, aqv, exit_status, exit_path,
                         fs, fds, sub, tty_present, owner, cntv, queries, delivered>>
     ELSE /\ \/ err_exit(1, "kill")
             \/ cleanup_exit(0, "signal")
          /\ hist' = hist
          /\ UNCHANGED ExitKeeps

(***************************************************************************)
(* agent_recv (main.c:462-488) as called from main.c:604-616.              *)
(***************************************************************************)
\* recv told the whole array is free whatever it holds already (a faulty
\* variant, told apart by C16_OversizeNeverStoredNorForwarded)
RecvRoom_Whole(p) == AGENT_MAX_MSGLEN
\* main.c:465: sizeof(p->buf) - (size_t)p->recv
RecvRoom(p) == AGENT_MAX_MSGLEN - p.recv
\* main.c:473 without its second test (a faulty variant, told apart by
\* C3_ForwardedOnceWhenComplete)
MoreToRecv_HeaderOnly(p) == p.recv < 4
\* main.c:473
MoreToRecv(p) == p.recv < 4 \/ p.recv < msglen(p)
\* main.c:476 without the test (a faulty variant, told apart by
\* C32_ExcessDropsAndSendingIsNotRead)
TooMuchRecv_Never(p) == FALSE
\* main.c:476
TooMuchRecv(p) == p.recv > msglen(p)
\* the header is in and the buffer holds more bytes than it declares
Excess(p) == p.recv >= 4 /\ p.recv > msglen(p)

\* main.c:465-470 and 606-612: recv returns 0 or -1; the connection is closed
RecvClosed ==
  /\ At("recv")
  /\ fds' = fds \ {fd}
  /\ read_set' = Drop(fd, read_set)
  /\ bufs' = Without(bufs, fd)
  /\ owner' = Without(owner, fd)
  /\ Continue(do_read_set \ {fd}, do_write_set)
  /\ UNCHANGED <<optv, w32v, write_set, aqv, exitv, helper, envv, cntv, queries, delivered>>

\* main.c:465-483: recv returns k > 0 bytes.  A client that starts a frame
\* fixes its prefix; it may send the frame in pieces and may send one byte
\* too many.  Then: more to receive, too much, or agent_query is entered
\* (main.c:371: start_win32_helper's test at main.c:294).
RecvBytes ==
  /\ At("recv")
  /\ LET p == bufs[fd]
         c == owner[fd]
         fresh == p.recv = 0
     IN
     /\ fresh => nreq < MaxReqs
     /\ \E pfx \in (IF fresh THEN ReqPfxs ELSE {p.pfx}) :
        LET q0 == [p EXCEPT !.pfx = pfx,
                            !.tag = IF fresh THEN <<c, reqs[c] + 1>> ELSE p.tag,
                            !.parts = IF fresh THEN 0 ELSE p.parts,
                            !.nsent = 0]
            L == msglen(q0)
        IN
        \E k \in Sizes(p.recv, RecvRoom(p), {L, L + 1}) :
          LET q == [q0 EXCEPT !.recv = p.recv + k, !.parts = IF q0.parts = 0 THEN 1 ELSE 2] IN
          /\ nreq' = IF fresh THEN nreq + 1 ELSE nreq
          /\ reqs' = IF fresh THEN [reqs EXCEPT ![c] = reqs[c] + 1] ELSE reqs
          /\ hist' = IF Excess(q) THEN [hist EXCEPT !.over = q.tag] ELSE hist
          /\ IF MoreToRecv(q)
             THEN /\ bufs' = [bufs EXCEPT ![fd] = q]
                  /\ Continue(do_read_set \ {fd}, do_write_set)
                  /\ UNCHANGED <<fds, read_set, owner, aqv, queries>>
             ELSE IF TooMuchRecv(q)
             THEN /\ fds' = fds \ {fd}
                  /\ read_set' = Drop(fd, read_set)
                  /\ bufs' = Without(bufs, fd)
                  /\ owner' = Without(owner, fd)
                  /\ Continue(do_read_set \ {fd}, do_write_set)
                  /\ UNCHANGED <<aqv, queries>>
             ELSE /\ bufs' = [bufs EXCEPT ![fd] = q]
                  /\ queries' = [t \in DOMAIN queries \cup {q.tag} |->
                                   IF t = q.tag
                                   THEN (IF t \in DOMAIN queries THEN queries[t] ELSE 0) + 1
                                   ELSE queries[t]]
                  /\ call' = NoCall
                  /\ IF HelperRunning
                     THEN pc' = "aq_write" /\ rem' = L /\ ret' = "none"
                     ELSE pc' = "sh_spawn" /\ rem' = 0 /\ ret' = "top"
                  /\ off' = 0 /\ first_done' = FALSE
                  /\ UNCHANGED <<fds, read_set, owner, fd, do_read_set, do_write_set,
                                 ready>>
  /\ UNCHANGED <<optv, w32v, write_set, exit_status, exit_path, fs, tty_gone,
                 helper, envv, nconn, nspawn, delivered>>

(***************************************************************************)
(* agent_send (main.c:491-512) as called from main.c:618-630.              *)
(***************************************************************************)
\* main.c:494: (size_t)(msglen(p->buf) - p->send)
SendWant(p) == IF msglen(p) = Huge THEN Huge ELSE msglen(p) - p.send

\* main.c:501 without the test: any send counts as the last (a faulty
\* variant, told apart by C20_OnePhaseAndCountersResetOnCompletion)
MoreToSend_Never(p) == FALSE
\* main.c:501
MoreToSend(p) == p.send < msglen(p)

\* main.c:495-498 and 620-626: send fails; the connection is closed
SendFail ==
  /\ At("send")
  /\ fds' = fds \ {fd}
  /\ write_set' = Drop(fd, write_set)
  /\ bufs' = Without(bufs, fd)
  /\ owner' = Without(owner, fd)
  /\ Continue({}, do_write_set \ {fd})
  /\ UNCHANGED <<optv, w32v, read_set, aqv, exitv, helper, envv, cntv, queries, delivered>>

\* main.c:494-511 and 620-629: send takes k bytes (0 when nothing is asked);
\* when the whole reply is out the connection goes back to the read set
SendBytes ==
  /\ At("send")
  /\ LET p == bufs[fd]
         want == SendWant(p)
     IN
     \E k \in (IF want = 0 THEN {0} ELSE Sizes(p.send, want, {})) :
       LET q == [p EXCEPT !.send = p.send + k, !.nsent = p.nsent + k] IN
       IF MoreToSend(q)
       THEN /\ bufs' = [bufs EXCEPT ![fd] = q]
            /\ UNCHANGED <<fds, read_set, write_set, owner, delivered>>
       ELSE IF q.send > msglen(q)
       THEN /\ fds' = fds \ {fd}
            /\ write_set' = Drop(fd, write_set)
            /\ bufs' = Without(bufs, fd)
            /\ owner' = Without(owner, fd)
            /\ UNCHANGED <<read_set, delivered>>
       ELSE /\ bufs' = [bufs EXCEPT ![fd] = [q EXCEPT !.recv = 0, !.parts = 0, !.nsent = 0]]
            /\ write_set' = Drop(fd, write_set)
            /\ read_set' = read_set \cup {fd}
            /\ delivered' = [delivered EXCEPT ![owner[fd]] =
                               Append(@, [tag |-> q.tag, n |-> q.nsent, len |-> msglen(q)])]
            /\ UNCHANGED <<fds, owner>>
  /\ Continue({}, do_write_set \ {fd})
  /\ UNCHANGED <<optv, w32v, aqv, exitv, helper, envv, cntv, queries>>

(***************************************************************************)
(* agent_query (main.c:368-459) with start_win32_helper (main.c:284-365)   *)
(* and cleanup_win32(1) (main.c:110-128).                                  *)
(***************************************************************************)
AqPcs == {"sh_spawn", "sh_init", "aq_write", "cw_wait", "aq_read"}
Live == {"starting", "up"}

\* agent_query handed the buffer of the lowest open connection instead of
\* the one being served (a faulty variant, told apart by C2_OneExchangeAtATime)
CurTag_Lowest == bufs[Min(DOMAIN bufs)].tag
\* the request agent_query is serving
CurTag == bufs[fd].tag

\* agent_query's locals are gone when it returns
Returned ==
  /\ rem' = 0 /\ off' = 0 /\ first_done' = FALSE /\ ret' = "none" /\ call' = NoCall

\* agent_query returns -1: main.c:483-484, then main.c:606-612
QueryFail ==
  /\ fds' = (fds \ {fd}) \ ClosedFds
  /\ read_set' = Drop(fd, read_set)
  /\ bufs' = Without(bufs, fd)
  /\ owner' = Without(owner, fd)
  /\ Continue(do_read_set \ {fd}, do_write_set)
  /\ Returned
  /\ UNCHANGED write_set

\* QueryOk without the reset of main.c:486 (a faulty variant, told apart by
\* C1_ReplyToOwnerOnce)
QueryOk_KeepSend(p) ==
  /\ bufs' = [bufs EXCEPT ![fd] = p]
  /\ read_set' = Drop(fd, read_set)
  /\ write_set' = write_set \cup {fd}
  /\ Continue(do_read_set \ {fd}, do_write_set)
  /\ Returned
  /\ UNCHANGED <<fds, owner>>

\* QueryOk without the FD_SET of main.c:614 (a faulty variant, told apart by
\* C33_AnsweredOrClosed)
QueryOk_NoFlip(p) ==
  /\ bufs' = [bufs EXCEPT ![fd] = [p EXCEPT !.send = 0]]
  /\ read_set' = Drop(fd, read_set)
  /\ write_set' = write_set
  /\ Continue(do_read_set \ {fd}, do_write_set)
  /\ Returned
  /\ UNCHANGED <<fds, owner>>

\* agent_query returns 0 with the reply in p: main.c:486-487, then
\* main.c:606-607, 613-614
QueryOk(p) ==
  /\ bufs' = [bufs EXCEPT ![fd] = [p EXCEPT !.send = 0]]
  /\ read_set' = Drop(fd, read_set)
  /\ write_set' = write_set \cup {fd}
  /\ Continue(do_read_set \ {fd}, do_write_set)
  /\ Returned
  /\ UNCHANGED <<fds, owner>>

\* main.c:113-121, 127: cleanup_win32's assignments
CloseHelperFds ==
  /\ win32_in' = Closed(win32_in)
  /\ win32_out' = Closed(win32_out)
  /\ win32_pid' = 0

\* cleanup_win32 without the waitpid (a faulty variant, told apart by
\* C30_SpawnOnlyAfterThePreviousIsReaped)
Reap_NoWait(h) == h
\* main.c:124-125: waitpid(win32_pid, NULL, 0) on a helper that has ended
Reap(h) == IF win32_pid > 0 /\ h.pid = win32_pid /\ h.st = "zombie"
           THEN [h EXCEPT !.st = "reaped"] ELSE h

\* main.c:304-343: the two pipes and posix_spawn.  pipe2 hands out the two
\* lowest free descriptors each time; the proxy keeps out_pipe[1] and
\* in_pipe[0] and closes the other two.
StartSpawn ==
  /\ At("sh_spawn")
  /\ LET o0 == LowFd(fds)
         o1 == LowFd(fds \cup {o0})
         i0 == LowFd(fds \cup {o0, o1})
     IN
     \/ \* posix_spawn returns 0
        /\ nspawn < MaxSpawns
        /\ win32_in' = i0 /\ win32_out' = o1
        /\ win32_pid' = SpawnedPid(nspawn + 1)
        /\ nspawn' = nspawn + 1
        /\ fds' = fds \cup {o1, i0}
        /\ helper' = [NoHelper EXCEPT !.st = "starting", !.pid = SpawnedPid(nspawn + 1)]
        /\ pc' = "sh_init"
        /\ UNCHANGED <<fd, setv, bufs, owner, aqv, exitv, sigchld>>
        /\ UNCHANGED <<optv, sub, tty_present, nconn, nreq, reqs, queries, delivered>>
     \/ \* posix_spawn fails: main.c:327-329, cleanup_win32(0), result = -1,
        \* then main.c:371-372 and 606-612.  Either no child was made, or
        \* the child could not exec the helper and ended: posix_spawn reaps
        \* it, and its SIGCHLD stays pending if a handler is installed.
        /\ win32_in' = Closed(i0) /\ win32_out' = Closed(o1) /\ win32_pid' = 0
        /\ fds' = fds \ {fd}
        /\ read_set' = Drop(fd, read_set)
        /\ bufs' = Without(bufs, fd)
        /\ owner' = Without(owner, fd)
        /\ Continue(do_read_set \ {fd}, do_write_set)
        /\ Returned
        /\ \/ sigchld' = sigchld
           \/ chld_handler /\ sigchld' = sigchld \cup {FailedPid}
        /\ UNCHANGED <<write_set, exitv, helper, nspawn>>
        /\ UNCHANGED <<optv, sub, tty_present, nconn, nreq, reqs, queries, delivered>>
     \/ \* pipe2 fails: main.c:304-305
        /\ cleanup_exit(1, "syscall")
        /\ hist' = hist
        /\ UNCHANGED ExitKeeps

\* main.c:345-364: the blocking read of the initialization byte, then the
\* return into agent_query at main.c:371-379 or main.c:395-398
StartInit ==
  /\ At("sh_init")
  /\ \/ /\ win32_in >= 0 /\ helper.st = "starting"
        /\ \/ \* the byte is 'a'
              /\ helper' = [helper EXCEPT !.st = "up", !.hs = TRUE]
              /\ pc' = "aq_write"
              /\ IF ret = "top"
                 THEN rem' = msglen(bufs[fd]) /\ off' = 0 /\ first_done' = FALSE
                 ELSE rem' = rem /\ off' = off /\ first_done' = TRUE
              /\ ret' = "none"
              /\ UNCHANGED <<optv, w32v, fd, setv, bufs, owner, call, exitv, fds,
                             envv, cntv, queries, delivered>>
           \/ \* any other byte: main.c:357-360
              /\ cleanup_exit(1, "handshake")
              /\ hist' = hist
              /\ UNCHANGED ExitKeeps
     \/ \* end of file: main.c:353-356
        /\ win32_in >= 0 /\ helper.st \notin Live
        /\ cleanup_exit(1, "handshake")
        /\ hist' = hist
        /\ UNCHANGED ExitKeeps
     \/ \* cleanup_signal closed the descriptor: read(-1), main.c:351-352
        /\ win32_in < 0
        /\ cleanup_exit(1, "syscall")
        /\ hist' = hist
        /\ UNCHANGED ExitKeeps

\* main.c:393 without the test (a faulty variant, told apart by
\* C4_RestartOnlyBeforeFirstByte)
MayRetry_Always == TRUE
\* main.c:393: whether an EPIPE is answered with a restart
MayRetry == ~first_done

\* main.c:381-382, 410-418: write takes k bytes; after the last byte the
\* request is the helper's and the read phase starts
AqWrite ==
  /\ At("aq_write")
  /\ win32_out >= 0 /\ helper.st \in Live
  /\ \E k \in Sizes(off, rem, {}) :
       IF rem - k > 0
       THEN /\ rem' = rem - k /\ off' = off + k /\ first_done' = TRUE
            /\ UNCHANGED <<pc, helper>>
       ELSE /\ rem' = 4 /\ off' = 0 /\ first_done' = FALSE
            /\ pc' = "aq_read"
            /\ helper' = [helper EXCEPT !.inq = Append(@, CurTag)]
  /\ UNCHANGED <<optv, w32v, fd, setv, bufs, owner, ret, call, exitv, fds,
                 envv, cntv, queries, delivered>>

\* main.c:390-401: write fails with EPIPE (SIGPIPE is ignored, main.c:907):
\* the helper has ended.  cleanup_win32(1) reaps it; then either the restart
\* (start_win32_helper, main.c:395) or return -1.
AqWriteEpipe ==
  /\ At("aq_write")
  /\ win32_out >= 0 /\ helper.st \notin Live
  /\ helper' = Reap(helper)
  /\ CloseHelperFds
  /\ IF MayRetry
     THEN /\ pc' = "sh_spawn" /\ ret' = "retry"
          /\ call' = [call EXCEPT !.epipes = @ + 1, !.restarts = @ + 1, !.roff = off,
                                  !.early = @ + (IF off = 0 THEN 1 ELSE 0)]
          /\ fds' = fds \ ClosedFds
          /\ UNCHANGED <<fd, setv, bufs, owner, rem, off, first_done>>
     ELSE QueryFail
  /\ UNCHANGED <<optv, exitv, envv, cntv, queries, delivered>>

\* main.c:385-388, 403-406 (and 423-430 for read): cleanup_signal has closed
\* the descriptor.  The call either reports the interruption (EINTR, return
\* -1) or is made on -1 (EBADF, cleanup_warn).
DescriptorGone ==
  \/ /\ QueryFail
     /\ UNCHANGED <<optv, w32v, exitv, helper, envv, cntv, queries, delivered>>
  \/ /\ cleanup_exit(1, "syscall")
     /\ hist' = hist
     /\ UNCHANGED ExitKeeps

AqWriteGone ==
  /\ At("aq_write")
  /\ win32_out < 0
  /\ DescriptorGone

\* main.c:448: msglen(buf) - 4 in size_t
BodySize(p) == IF msglen(p) = Huge THEN Huge
               ELSE IF msglen(p) < 4 THEN Huge ELSE msglen(p) - 4
\* main.c:449
OversizeReply(p) == BodySize(p) > AGENT_MAX_MSGLEN - 4

\* main.c:419-420, 440-458: read returns k > 0 bytes of the reply to the
\* oldest request the helper holds.  When the header is complete the body
\* size is taken from it; an oversize reply closes the pipes (main.c:451).
AqRead ==
  /\ At("aq_read")
  /\ win32_in >= 0 /\ helper.st = "up" /\ helper.inq # <<>>
  /\ \E k \in Sizes(off, rem, {}) :
     \E pfx \in (IF ~first_done /\ rem = k THEN RepPfxs ELSE {bufs[fd].pfx}) :
       LET p == bufs[fd]
           q == IF ~first_done /\ rem = k
                THEN [p EXCEPT !.pfx = pfx, !.tag = Head(helper.inq)]
                ELSE p
       IN
       IF rem - k > 0
       THEN /\ rem' = rem - k /\ off' = off + k
            /\ UNCHANGED <<pc, first_done, ret, call, bufs, helper, w32v, fds,
                           fd, setv, owner>>
       ELSE IF ~first_done
       THEN IF OversizeReply(q)
            THEN /\ pc' = "cw_wait" /\ ret' = "fail"
                 /\ bufs' = [bufs EXCEPT ![fd] = q]
                 /\ win32_in' = Closed(win32_in) /\ win32_out' = Closed(win32_out)
                 /\ fds' = fds \ ClosedFds
                 /\ UNCHANGED <<rem, off, first_done, call, helper, win32_pid,
                                fd, setv, owner>>
            ELSE IF BodySize(q) > 0
            THEN /\ rem' = BodySize(q) /\ off' = off + k /\ first_done' = TRUE
                 /\ bufs' = [bufs EXCEPT ![fd] = q]
                 /\ UNCHANGED <<pc, ret, call, helper, w32v, fds, fd, setv, owner>>
            ELSE /\ QueryOk(q)
                 /\ helper' = [helper EXCEPT !.inq = Tail(@)]
                 /\ UNCHANGED w32v
       ELSE /\ QueryOk(q)
            /\ helper' = [helper EXCEPT !.inq = Tail(@)]
            /\ UNCHANGED w32v
  /\ UNCHANGED <<optv, exitv, envv, cntv, queries, delivered>>

\* main.c:433-438: read returns 0, the helper has ended; cleanup_win32(1)
\* reaps it and agent_query returns -1
AqReadEof ==
  /\ At("aq_read")
  /\ win32_in >= 0 /\ helper.st \notin Live
  /\ helper' = [Reap(helper) EXCEPT !.eof = TRUE]
  /\ CloseHelperFds
  /\ QueryFail
  /\ UNCHANGED <<optv, exitv, envv, cntv, queries, delivered>>

AqReadGone ==
  /\ At("aq_read")
  /\ win32_in < 0
  /\ DescriptorGone

\* main.c:124-127 after main.c:451: waitpid(win32_pid, NULL, 0) returns once
\* the helper, whose pipes are closed, has ended (or at once with ECHILD when
\* cleanup_signal has reaped it); then return -1 (main.c:452)
CleanupWait ==
  /\ At("cw_wait")
  /\ helper.st \notin Live
  /\ helper' = Reap(helper)
  /\ CloseHelperFds
  /\ QueryFail
  /\ UNCHANGED <<optv, exitv, envv, cntv, queries, delivered>>

(***************************************************************************)
(* cleanup_signal (main.c:150-175), installed by signal(2) at              *)
(* main.c:904-906 and, for SIGCHLD, at main.c:932 / 994.                   *)
(***************************************************************************)
\* main.c:158: subcommand_pid > 0 && (status = wait_subcommand(WNOHANG)) >= 0,
\* when waitpid stores ws
SubBranch(ws) == subcommand_pid > 0 /\ wait_subcommand(WaitSubNoHang, ws) >= 0
\* main.c:161: win32_pid > 0 && waitpid(win32_pid, NULL, WNOHANG) > 0
HelperBranch == win32_pid > 0 /\ helper.pid = win32_pid /\ helper.st = "zombie"

\* cleanup_signal(SIGCHLD).  One run of the handler serves every SIGCHLD
\* raised since the last one.  The wait status of an ended subcommand is
\* drawn when waitpid reports it.
SigChld ==
  /\ Running /\ chld_handler /\ sigchld # {}
  /\ \E ws \in (IF sub.st = "zombie" THEN SubEnds ELSE {0}) :
     IF SubBranch(ws)
     THEN /\ cleanup_exit(wait_subcommand(WaitSubNoHang, ws), "subcommand")
          /\ sub' = IF sub.st = "zombie" THEN [st |-> "reaped", ws |-> ws] ELSE sub
          /\ hist' = [hist EXCEPT !.chld = sigchld, !.neither = FALSE]
          /\ UNCHANGED <<optv, helper, tty_present, cntv, queries, delivered>>
     ELSE IF HelperBranch
     THEN \* main.c:164-165: cleanup_win32(0); return
          /\ helper' = [helper EXCEPT !.st = "reaped"]
          /\ CloseHelperFds
          /\ fds' = fds \ ClosedFds
          /\ sigchld' = {}
          /\ UNCHANGED <<optv, pc, fd, setv, bufs, owner, aqv, exitv, sub, tty_present,
                         cntv, queries, delivered>>
     ELSE /\ cleanup_exit(UNKNOWN_CHILD_STATUS, "unknown_child")
          /\ hist' = [hist EXCEPT !.chld = sigchld, !.neither = TRUE]
          /\ UNCHANGED ExitKeeps

\* cleanup_signal(SIGINT | SIGHUP | SIGTERM): main.c:156, 174
ExitSignal ==
  /\ Running
  /\ cleanup_exit(0, "signal")
  /\ hist' = hist
  /\ UNCHANGED ExitKeeps

(***************************************************************************)
(* The environment.                                                        *)
(***************************************************************************)
\* the helper process ends (killed, crashed, or done after its stdin closed);
\* the kernel raises SIGCHLD, which is ignored unless a handler is installed.
\* What it held of requests is gone with it; idle records that no exchange
\* was under way.
HelperDies ==
  /\ Running /\ ~(chld_handler /\ subcommand_pid \in sigchld)
  /\ helper.st \in Live
  /\ helper' = [helper EXCEPT !.st = "zombie", !.inq = <<>>, !.idle = pc \notin AqPcs]
  /\ sigchld' = IF chld_handler THEN sigchld \cup {helper.pid} ELSE sigchld
  /\ UNCHANGED <<optv, w32v, pc, fd, setv, bufs, owner, aqv, exitv, fds, sub,
                 tty_present, cntv, queries, delivered>>

\* the subcommand ends
SubcommandEnds ==
  /\ Running
  /\ sub.st = "running"
  /\ sub' = [sub EXCEPT !.st = "zombie"]
  /\ sigchld' = IF chld_handler THEN sigchld \cup {subcommand_pid} ELSE sigchld
  /\ UNCHANGED <<optv, w32v, pc, fd, setv, bufs, owner, aqv, exitv, fds, helper,
                 tty_present, cntv, queries, delivered>>

Next ==
  \/ SelectReady \/ SelectFail \/ TtyGoneTick \/ TtyKill
  \/ RecvClosed \/ RecvBytes
  \/ SendFail \/ SendBytes
  \/ StartSpawn \/ StartInit
  \/ AqWrite \/ AqWriteEpipe \/ AqWriteGone
  \/ AqRead \/ AqReadEof \/ AqReadGone
  \/ CleanupWait
  \/ SigChld \/ ExitSignal
  \/ HelperDies \/ SubcommandEnds

Spec == Init /\ [][Next]_vars

(***************************************************************************)
(* main() before the loop (main.c:885-1014): where the socket path comes   *)
(* from, whether an existing socket is reused, and what is registered for  *)
(* cleanup_exit.  The process here is the one that goes on to the loop     *)
(* (after fork(), the child).                                              *)
(***************************************************************************)
\* strncpy(addr.sun_path, sockpath, sizeof(addr.sun_path)) followed by
\* bind/connect with sizeof(addr): the kernel takes at most
\* sizeof(addr.sun_path) bytes of the path (main.c:205-209, 252-254)
sun_path(p) == IF Len(p) > SUN_PATH_SIZE THEN SubSeq(p, 1, SUN_PATH_SIZE) ELSE p

\* what may lie at a path when the program starts
Kinds == {"absent", "live", "stale", "file"}
\* the paths another process may have made before this one started
Foreign == {APath, LongPath, sun_path(LongPath)}

\* the variables only the loop writes
loopv == <<opt_no_exit, tty_gone, w32v, fd, setv, bufs, aqv, helper, sigchld,
           tty_present, owner, cntv, queries, delivered, hist>>

\* main.c:885-907: options parsed, SSH_AUTH_SOCK consulted, the handlers of
\* SIGINT, SIGHUP and SIGTERM installed; main() is about to evaluate
\* opt_reuse && reuse_socket_path(sockpath)
MainInit ==
  /\ \E mode \in {"daemon", "debug", "subcommand"},
        a \in {"", APath, LongPath},          \* -a
        r \in BOOLEAN,                         \* -r
        env \in {"", APath},                   \* SSH_AUTH_SOCK
        kind \in [Foreign -> Kinds] :
       /\ start = [mode |-> mode,
                   sockpath |-> IF r /\ a = "" THEN env ELSE a,
                   opt_reuse |-> r,
                   from_env |-> r /\ a = "" /\ env # "",
                   reused |-> FALSE,
                   kind |-> kind,
                   made |-> {},
                   emits |-> {}]
       /\ fs = {p \in Foreign : kind[p] # "absent"}
  /\ opt_no_exit = FALSE /\ subcommand_pid = 0 /\ chld_handler = FALSE
  /\ sub = [st |-> "none", ws |-> 0]
  /\ cleanup_tempdir = "" /\ cleanup_sockpath = ""
  /\ tty_gone = FALSE
  /\ win32_pid = 0 /\ win32_in = -1 /\ win32_out = -1
  /\ pc = "m_reuse" /\ fd = 0
  /\ read_set = {} /\ write_set = {}
  /\ do_read_set = {} /\ do_write_set = {} /\ ready = <<>>
  /\ bufs = <<>>
  /\ rem = 0 /\ off = 0 /\ first_done = FALSE /\ ret = "none"
  /\ exit_status = -1 /\ exit_path = "none"
  /\ fds = {0, 1, 2}
  /\ helper = NoHelper
  /\ sigchld = {}
  /\ tty_present = TRUE
  /\ owner = <<>> /\ nconn = 0 /\ nreq = 0 /\ nspawn = 0
  /\ reqs = [c \in 1..MaxConns |-> 0]
  /\ queries = <<>>
  /\ call = NoCall
  /\ delivered = [c \in 1..MaxConns |-> <<>>]
  /\ hist = NoHist
  /\ agent = NoAgent

\* cleanup_warn (main.c:102-107) before the loop runs
MainWarn ==
  /\ cleanup_exit(1, "syscall")
  /\ hist' = hist
  /\ UNCHANGED ExitKeeps

\* what is at path p now
KindAt(p) == IF p \in fs /\ p \in DOMAIN start.kind THEN start.kind[p]
             ELSE IF p \in fs THEN "file" ELSE "absent"

\* main.c:909 with reuse_socket_path, main.c:238-281
MainReuse ==
  /\ pc = "m_reuse"
  /\ LET sp == start.sockpath
         skip == /\ pc' = IF sp = "" \/ start.from_env THEN "m_create" ELSE "m_open"
                 /\ UNCHANGED <<fs, start, exitv, fds, optv, sub, loopv>>
     IN
     IF ~start.opt_reuse \/ sp = ""
     THEN skip
     ELSE \* socket() fails
          \/ MainWarn
          \* connect() to the path as sun_path holds it
          \/ CASE KindAt(sun_path(sp)) = "live" ->
                    /\ start' = [start EXCEPT !.reused = TRUE]
                    /\ pc' = "m_mode"
                    /\ UNCHANGED <<fs, exit_status, exit_path, tty_gone, hist, fds,
                                   opt_no_exit, agent, subcommand_pid, chld_handler,
                                   cleanup_tempdir, cleanup_sockpath, sub, w32v, fd,
                                   setv, bufs, aqv, helper, sigchld, tty_present,
                                   owner, cntv, queries, delivered>>
               [] KindAt(sun_path(sp)) = "absent" -> skip
               \* ECONNREFUSED: path_is_socket and unlink take sockpath itself
               [] OTHER ->
                    IF KindAt(sp) \in {"live", "stale"}
                    THEN \/ /\ fs' = fs \ {sp}
                            /\ pc' = IF start.from_env THEN "m_create" ELSE "m_open"
                            /\ UNCHANGED <<start, exit_status, exit_path, tty_gone,
                                           hist, fds, optv, sub, w32v, fd, setv, bufs,
                                           aqv, helper, sigchld, tty_present, owner,
                                           cntv, queries, delivered>>
                         \/ MainWarn
                    ELSE MainWarn

\* main.c:911-912 with create_socket_path, main.c:179-190
MainCreate ==
  /\ pc = "m_create"
  /\ \/ \* mkdtemp made the directory
        /\ fs' = fs \cup {TempDir}
        /\ cleanup_tempdir' = TempDir
        /\ start' = [start EXCEPT !.sockpath = SockPath, !.made = @ \cup {TempDir}]
        /\ pc' = "m_open"
        /\ UNCHANGED <<exit_status, exit_path, tty_gone, hist, fds, opt_no_exit, agent,
                       subcommand_pid, chld_handler, cleanup_sockpath, sub, w32v, fd,
                       setv, bufs, aqv, helper, sigchld, tty_present, owner, cntv,
                       queries, delivered>>
     \/ MainWarn

\* main.c:913 with open_auth_socket, main.c:194-220: socket, bind, listen.
\* bind makes the path sun_path holds; cleanup_sockpath gets sockpath.
MainOpen ==
  /\ pc = "m_open"
  /\ \/ \* socket() or bind() fails: nothing more is registered
        MainWarn
     \/ /\ sun_path(start.sockpath) \notin fs
        /\ \/ \* bound and listening
              /\ fs' = fs \cup {sun_path(start.sockpath)}
              /\ start' = [start EXCEPT !.made = @ \cup {sun_path(start.sockpath)}]
              /\ cleanup_sockpath' = start.sockpath
              /\ fds' = fds \cup {sockfd}
              /\ pc' = "m_mode"
              /\ UNCHANGED <<exit_status, exit_path, tty_gone, hist, opt_no_exit, agent,
                             subcommand_pid, chld_handler, cleanup_tempdir, sub, w32v,
                             fd, setv, bufs, aqv, helper, sigchld, tty_present, owner,
                             cntv, queries, delivered>>
           \/ \* bound, listen() fails: cleanup_warn with the path registered
              /\ fs' = (fs \cup {sun_path(start.sockpath)})
                         \ {start.sockpath, cleanup_tempdir}
              /\ start' = [start EXCEPT !.made = @ \cup {sun_path(start.sockpath)}]
              /\ cleanup_sockpath' = start.sockpath
              /\ Gone(1, "syscall")
              /\ hist' = hist
              /\ UNCHANGED <<opt_no_exit, agent, subcommand_pid, chld_handler, cleanup_tempdir,
                             helper, sub, tty_present, cntv, queries, delivered>>

\* main.c:920 with every launch setting SSH_AGENT_PID (a faulty variant,
\* told apart by C24_ReuseOnlyPointsAtTheSocket)
p_set_pid_env_Always(reused) == TRUE
\* main.c:920
p_set_pid_env(reused) == ~reused

\* main.c:919-1014: spawn the subcommand or become the daemon, close stdout,
\* then enter the loop, or with a reused socket wait for the subcommand or
\* return.  The variables are given to the subcommand (main.c:925-930) or
\* printed for the shell (main.c:969, 702-723).
MainMode ==
  /\ pc = "m_mode"
  /\ \/ \* posix_spawnp, fork, shell_escape or setpgid fails
        MainWarn
     \/ /\ subcommand_pid' = IF start.mode = "subcommand" THEN SubPid ELSE 0
        /\ sub' = [st |-> IF start.mode = "subcommand" THEN "running" ELSE "none",
                   ws |-> 0]
        \* main.c:931-932, 994
        /\ chld_handler' = (~start.reused /\ start.mode # "debug")
        /\ IF start.reused /\ start.mode # "subcommand"
           THEN \* return 0
                /\ err_exit(0, "return")
                /\ hist' = hist
           ELSE /\ pc' = IF start.reused THEN "m_wait" ELSE "select"
                /\ read_set' = IF start.reused THEN {} ELSE {sockfd}
                \* main.c:1004
                /\ fds' = fds \ {1}
                /\ UNCHANGED <<exitv, tty_gone, w32v, fd, write_set, do_read_set, ready,
                               do_write_set, bufs, aqv, sigchld, owner>>
        /\ start' = [start EXCEPT !.emits =
                       {"SSH_AUTH_SOCK"} \cup
                       (IF p_set_pid_env(start.reused) THEN {"SSH_AGENT_PID"} ELSE {})]
        /\ UNCHANGED <<opt_no_exit, agent, cleanup_tempdir, cleanup_sockpath, helper,
                       tty_present, cntv, queries, delivered>>

\* main.c:1010-1014: status = wait_subcommand(0); return status
MainWait ==
  /\ pc = "m_wait"
  /\ sub.st = "zombie"
  /\ \E ws \in SubEnds :
       /\ err_exit(wait_subcommand(subcommand_pid, ws), "return")
       /\ sub' = [st |-> "reaped", ws |-> ws]
  /\ hist' = hist
  /\ UNCHANGED <<optv, helper, tty_present, cntv, queries, delivered>>

\* The loop removes no path and registers none (Spec); of its steps only the
\* ends of the process are kept here.
MainNext ==
  \/ MainReuse \/ MainCreate \/ MainOpen \/ MainMode \/ MainWait
  \/ SelectFail \/ ExitSignal \/ SubcommandEnds

MainSpec == MainInit /\ [][MainNext]_vars

(***************************************************************************)
(* Properties.                                                             *)
(***************************************************************************)
\* the request connection c is on, and the connection of descriptor f
LastTag(c) == <<c, reqs[c]>>
ConnFds == DOMAIN bufs

\* C1: every request forwarded successfully produces exactly one reply, sent
\* whole and only to the connection that sent the request.  The i-th reply
\* delivered on a connection answers that connection's i-th request and was
\* sent byte for byte once; a connection waiting to send holds the reply to
\* its own latest request; every request begun on an open connection is
\* either still being handled or has had its reply delivered.
C1_ReplyToOwnerOnce ==
  /\ \A c \in 1..MaxConns : \A i \in 1..Len(delivered[c]) :
       /\ delivered[c][i].tag = <<c, i>>
       /\ delivered[c][i].n = delivered[c][i].len
  /\ \A f \in write_set :
       /\ bufs[f].tag = LastTag(owner[f])
       /\ Len(delivered[owner[f]]) = reqs[owner[f]] - 1
  /\ \A f \in read_set \cap ConnFds :
       Len(delivered[owner[f]]) = reqs[owner[f]] - (IF bufs[f].recv > 0 THEN 1 ELSE 0)

\* two connections were open together, each sent a request in several
\* pieces, and each got its reply
C1_Witness ==
  /\ Len(delivered[1]) = 1 /\ Len(delivered[2]) = 1
  /\ Cardinality(ConnFds) = 2

\* C2: requests go through the helper one at a time.  While agent_query runs
\* for one connection, no step accepts a connection, touches another
\* connection's buffer or set membership, begins or delivers anything, and
\* the helper holds nothing but (at most once) the request being served.
Exchange == pc \in AqPcs
C2_OneExchangeAtATime ==
  [][(Exchange /\ pc' # "exited") =>
       /\ nconn' = nconn /\ reqs' = reqs /\ delivered' = delivered
       /\ \A f \in ConnFds \ {fd} :
            /\ f \in DOMAIN bufs' /\ bufs'[f] = bufs[f]
            /\ (f \in read_set') = (f \in read_set)
            /\ (f \in write_set') = (f \in write_set)
       /\ Len(helper'.inq) <= 1
       /\ \A i \in DOMAIN helper'.inq : helper'.inq[i] = LastTag(owner[fd])]_vars

\* an exchange is under way while another connection is ready to be read and
\* a third party's reply waits to be sent
C2_Witness ==
  /\ pc = "aq_read" /\ off > 0
  /\ do_read_set \ {fd} # {}

\* C3: a request arriving in any number of partial reads is forwarded exactly
\* once and only when the buffered count equals the declared length:
\* agent_query is entered at most once per request, the buffer it is given
\* holds exactly msglen bytes, and no connection is left in the read set
\* with a complete frame that is not being forwarded.
C3_ForwardedOnceWhenComplete ==
  /\ \A t \in DOMAIN queries : queries[t] = 1
  /\ pc \in {"sh_spawn", "sh_init", "aq_write"} =>
       bufs[fd].recv >= 4 /\ bufs[fd].recv = msglen(bufs[fd])
  /\ \A f \in read_set \cap ConnFds :
       (bufs[f].recv >= 4 /\ bufs[f].recv >= msglen(bufs[f])) => (Exchange /\ f = fd)

\* a frame that took several recv calls is being written to the helper
C3_Witness ==
  /\ pc = "aq_write" /\ bufs[fd].parts = 2 /\ CurTag \in DOMAIN queries

\* a write to the helper fails with EPIPE: the step of main.c:390-401
EpipeStep ==
  /\ pc = "aq_write" /\ win32_out >= 0 /\ helper.st \notin Live
  /\ pc' \notin {"aq_write", "exited"}

\* C4 as stated: an EPIPE at any point of the write phase is answered with a
\* restart and a retry, unless it is the second EPIPE of the call
C4_AnyEpipeRestarts ==
  [][EpipeStep =>
       IF call.epipes = 0
       THEN pc' = "sh_spawn" /\ call'.restarts = 1
       ELSE pc' # "sh_spawn" /\ nspawn' = nspawn]_vars

\* C4: an EPIPE is answered with a restart and a retry only when no byte of
\* the request has been written and the call has not restarted yet; then the
\* retry starts from the first byte.  Any other EPIPE ends the call with
\* failure and starts no helper.  A call never restarts twice.
C4_RestartOnlyBeforeFirstByte ==
  /\ [](call.restarts <= 1 /\ call.epipes <= 1 /\ call.roff = 0)
  /\ [][EpipeStep =>
          IF off = 0 /\ call.restarts = 0
          THEN pc' = "sh_spawn" /\ call'.restarts = 1 /\ off' = 0 /\ rem' = rem
          ELSE /\ pc' \notin AqPcs /\ nspawn' = nspawn
               /\ fd \notin DOMAIN bufs']_vars

\* after an EPIPE and one restart the whole request has gone to the new helper
C4_Witness ==
  /\ pc = "aq_read" /\ call.restarts = 1 /\ call.early = 1

\* a read of the reply returns 0: the step of main.c:433-438
EofStep ==
  /\ pc = "aq_read" /\ win32_in >= 0 /\ helper.st \notin Live
  /\ pc' \notin {"aq_read", "exited"}

\* one run of cleanup_signal(SIGCHLD)
HandlerStep ==
  /\ chld_handler /\ sigchld # {} /\ sigchld' = {}
  /\ pc' = "exited" => exit_path' \in {"subcommand", "unknown_child"}

\* the subcommand's end has not been reported to the proxy
SubNotReaped == sub.st # "reaped"

\* C5: end-of-file while the reply is read makes agent_query return failure
\* without a retry on a new helper, leaves the helper state clean
\* (descriptors invalid, pid 0), drops only the owning connection, and the
\* proxy keeps running: it does not exit on the child-exit notification of
\* that helper.
C5_EofDropsOnlyTheRequest ==
  /\ [][EofStep =>
          /\ pc' \notin AqPcs /\ nspawn' = nspawn
          /\ win32_in' < 0 /\ win32_out' < 0 /\ win32_pid' = 0
          /\ DOMAIN bufs' = DOMAIN bufs \ {fd}]_vars
  /\ [](helper.eof => ~(pc = "exited" /\ helper.pid \in hist.chld /\ SubNotReaped))

\* the proxy exited with status 55 on the notification of a helper whose
\* end-of-file it had handled
C5_Witness ==
  /\ pc = "exited" /\ helper.eof /\ hist.chld = {helper.pid}
  /\ exit_status = UNKNOWN_CHILD_STATUS

\* C6: when the helper is killed while no exchange is in progress the proxy
\* does not exit (the next request starts a new helper): the proxy never
\* ends on the child-exit notification of a helper that died idle, in any
\* launch mode.
C6_IdleHelperDeathSurvived ==
  ~(pc = "exited" /\ helper.idle /\ helper.pid \in hist.chld /\ SubNotReaped)

\* subcommand mode: the proxy exited although only the idle helper had died
C6_Witness ==
  /\ pc = "exited" /\ helper.idle /\ hist.chld = {helper.pid}
  /\ subcommand_pid > 0 /\ sub.st = "running"

\* C7: a child-exit notification caused by the helper only invalidates the
\* helper state and the proxy keeps running, whether or not a subcommand is
\* tracked and running; a notification caused by the subcommand leaves the
\* helper as it is.
C7_HelperExitOnlyInvalidates ==
  [][HandlerStep =>
       /\ (sigchld = {win32_pid} /\ win32_pid > 0) =>
            /\ pc' # "exited" /\ exit_status' = exit_status
            /\ win32_in' < 0 /\ win32_out' < 0 /\ win32_pid' = 0
            /\ sub' = sub
       /\ sigchld = {subcommand_pid} => helper' = helper]_vars

\* the handler took the subcommand branch while the helper it was told
\* about is still an unreaped zombie
C7_Witness ==
  /\ pc = "exited" /\ exit_path = "subcommand"
  /\ helper.st = "zombie" /\ sub.st = "running"

\* the status wait_subcommand derives from a wait status (main.c:139-142)
StatusOf(ws) == IF WIFEXITED(ws) THEN WEXITSTATUS(ws) ELSE 128 + WTERMSIG(ws)

\* C8: the proxy exits with a subcommand-derived status only when the
\* subcommand has terminated, and then with its exit code or 128 plus its
\* signal number, after cleanup.
C8_SubcommandStatusOnlyAfterItsEnd ==
  (pc = "exited" /\ exit_path = "subcommand") =>
    /\ sub.st = "reaped"
    /\ exit_status = StatusOf(sub.ws)
    /\ fs \cap {cleanup_sockpath, cleanup_tempdir} = {}

\* the proxy took the subcommand's exit path with status 0 while the
\* subcommand runs
C8_Witness ==
  /\ exit_path = "subcommand" /\ exit_status = 0 /\ sub.st = "running"

\* C9: a child-exit notification that matches neither the tracked subcommand
\* pid nor the tracked helper pid makes the proxy clean up and exit with
\* status 55.
C9_UnknownChildExits55 ==
  [][(HandlerStep /\ sigchld \cap {subcommand_pid, win32_pid} = {}) =>
       /\ pc' = "exited" /\ exit_status' = UNKNOWN_CHILD_STATUS
       /\ fs' \cap {cleanup_sockpath, cleanup_tempdir} = {}]_vars

\* subcommand mode: the handler was told only about a helper the main flow
\* had already reaped, and took the subcommand branch
C9_Witness ==
  /\ pc = "exited" /\ exit_path = "subcommand" /\ sub.st = "running"
  /\ helper.st = "reaped" /\ hist.chld = {helper.pid}

\* C10: whatever ends the process after the socket is bound, the socket path
\* and the temporary directory are removed before it exits.
C10_EveryExitCleansUp ==
  pc = "exited" => fs \cap {cleanup_sockpath, cleanup_tempdir} = {}

\* check_tty_gone's err(1, ...) ended the process and the socket is still there
C10_Witness ==
  /\ pc = "exited" /\ exit_path = "kill" /\ exit_status = 1
  /\ cleanup_sockpath \in fs

\* C11: a step that ends the process removes only paths this process made (the
\* socket it bound, the directory mkdtemp gave it), and once an existing live
\* socket is reused no step removes any path.
C11_CleanupRemovesOnlyOwned ==
  [][/\ pc' = "exited" => (fs \ fs') \subseteq start'.made
     /\ start.reused => fs' = fs]_vars

\* started with -a LongPath: the socket was bound at the first 108 bytes of
\* the path, and at exit the file another process had left at the full path
\* was removed while the bound socket stayed
C11_Witness ==
  /\ pc = "exited"
  /\ start.kind[LongPath] # "absent" /\ LongPath \notin start.made
  /\ LongPath \notin fs
  /\ sun_path(LongPath) \in start.made /\ sun_path(LongPath) \in fs

\* the main flow is in agent_recv or agent_send for connection fd, and this
\* step takes fd out of the polling sets for good: res < 0 at main.c:606-612
\* or 620-626 after a failed or empty recv, a frame longer than declared, or
\* a failed send
ClientFault ==
  /\ pc \in {"recv", "send"} /\ pc' # "exited"
  /\ fd \in read_set \cup write_set
  /\ fd \notin read_set' \cup write_set'

\* C12: the handling of one connection's malformed frame, I/O error or
\* disconnect leaves every other open connection as it was: its buffer
\* (contents, received and sent counts), its phase (which polling set it is
\* in) and its descriptor.
C12_OthersUntouched ==
  [][ClientFault =>
       \A g \in ConnFds \ {fd} :
         /\ g \in DOMAIN bufs' /\ bufs'[g] = bufs[g]
         /\ (g \in read_set') = (g \in read_set)
         /\ (g \in write_set') = (g \in write_set)
         /\ g \in fds' /\ owner'[g] = owner[g]]_vars

\* connection 2 came while connection 1 was open, began a frame and was
\* dropped; connection 1 is still open in the middle of a frame of its own
C12_Witness ==
  /\ pc # "exited" /\ nconn = 2
  /\ reqs[2] > 0 /\ \A g \in ConnFds : owner[g] = 1
  /\ \E g \in ConnFds : bufs[g].recv > 0 /\ g \in read_set

\* C13: a recv or send error, a disconnect or a protocol violation closes
\* that connection's descriptor, frees its buffer and leaves it in neither
\* polling set; the listening socket and every other connection stay
\* registered; and no step of agent_recv / agent_send ends the process (while
\* the main flow is there only a signal handler does).
C13_FaultDropsOnlyThatConnection ==
  [][/\ ClientFault =>
          /\ fd \notin fds' /\ fd \notin DOMAIN bufs'
          /\ sockfd \in read_set'
          /\ \A g \in ConnFds \ {fd} : g \in fds' /\ g \in read_set' \cup write_set'
     /\ pc \in {"recv", "send"} /\ pc' = "exited" =>
          exit_path' \in {"signal", "subcommand", "unknown_child"}]_vars

\* after one connection was dropped on a fault, a connection accepted later
\* has been served a whole reply
C13_Witness ==
  /\ pc # "exited" /\ nconn = 2
  /\ reqs[1] > 0 /\ delivered[1] = <<>> /\ \A g \in ConnFds : owner[g] = 2
  /\ delivered[2] # <<>>

\* posix_spawn failed: start_win32_helper returned -1 into agent_query
\* (main.c:327-331, 371-372)
SpawnFailStep == pc = "sh_spawn" /\ pc' \notin {"sh_spawn", "sh_init", "exited"}

\* C14: a failed spawn of the helper does not end the proxy: the step leaves
\* both helper descriptors invalid and the pid 0 and drops only the
\* requesting connection, the proxy does not exit on account of the failed
\* spawn, and a request that finds no helper running attempts the spawn.
C14_SpawnFailureSurvived ==
  /\ [][SpawnFailStep =>
          /\ win32_in' < 0 /\ win32_out' < 0 /\ win32_pid' = 0
          /\ DOMAIN bufs' = DOMAIN bufs \ {fd}
          /\ \A g \in ConnFds \ {fd} : bufs'[g] = bufs[g]]_vars
  /\ [][(pc = "recv" /\ pc' \in AqPcs /\ ~HelperRunning) => pc' = "sh_spawn"]_vars
  /\ [](~(pc = "exited" /\ FailedPid \in hist.chld /\ SubNotReaped))

\* daemon launch: the proxy exited with status 55 on the SIGCHLD of the
\* child that could not exec the helper
C14_Witness ==
  /\ pc = "exited" /\ hist.chld = {FailedPid}
  /\ subcommand_pid = 0 /\ exit_status = UNKNOWN_CHILD_STATUS

\* the process ends while start_win32_helper waits for the initialization
\* byte (main.c:350), on a wrong byte or with the helper gone, and neither a
\* termination signal nor the end of the subcommand is the cause
HandshakeExit ==
  /\ pc = "sh_init" /\ pc' = "exited"
  /\ helper.st \notin Live \/ exit_path' = "handshake"
  /\ exit_path' # "signal" /\ sub'.st # "reaped"

\* C15: when the helper was spawned and its first byte is not 'a' or the
\* handshake read finds end-of-file, the proxy cleans up and exits with
\* status 1; and no byte of a request is written to a helper that has not
\* completed the handshake.
C15_HandshakeFailureExits1 ==
  /\ [][HandshakeExit =>
          /\ exit_status' = 1
          /\ fs' \cap {cleanup_sockpath, cleanup_tempdir} = {}]_vars
  /\ [][(pc = "aq_write" /\ pc' \in {"aq_write", "aq_read"}
           /\ (rem' < rem \/ pc' = "aq_read")) => helper.hs /\ helper.st = "up"]_vars
  /\ [][(pc = "sh_init" /\ pc' \in AqPcs \ {"sh_init"}) => helper'.hs]_vars

\* subcommand mode: the helper ended before its initialization byte and the
\* proxy exited with status 0 while the subcommand runs
C15_Witness ==
  /\ pc = "exited" /\ exit_status = 0 /\ exit_path = "subcommand"
  /\ sub.st = "running"
  /\ helper.st = "zombie" /\ ~helper.hs /\ hist.chld = {helper.pid}

\* the length a frame declares: its prefix as an unsigned 32-bit number
\* (Huge from 2^31 up)
Declared(p) ==
  IF p.pfx[1] >= 128 THEN Huge
  ELSE ((p.pfx[1] * 256 + p.pfx[2]) * 256 + p.pfx[3]) * 256 + p.pfx[4]
\* the declared length is more than a buffer holds after the 4-byte prefix
Oversize(p) == Declared(p) > AGENT_MAX_MSGLEN - 4

\* C16: no byte of any frame is stored past the end of a connection buffer
\* (recv never counts more than the buffer holds, and agent_query's transfers
\* stay inside it), a client frame that declares more than the maximum is
\* never handed to agent_query, and a helper frame that declares more than
\* the maximum is never in a buffer that is being sent to a client.
C16_OversizeNeverStoredNorForwarded ==
  /\ [](\A g \in ConnFds : bufs[g].recv <= AGENT_MAX_MSGLEN)
  /\ [](pc \in {"aq_write", "aq_read"} => off + rem <= AGENT_MAX_MSGLEN)
  /\ [][(pc = "recv" /\ pc' \in AqPcs) => ~Oversize(bufs'[fd])]_vars
  /\ [](\A g \in write_set : ~Oversize(bufs[g]))

\* one client has filled its buffer with a frame that declares more, and the
\* helper's reply to another declares more than the maximum and is refused
C16_Witness ==
  /\ \E g \in ConnFds : Oversize(bufs[g]) /\ bufs[g].recv = AGENT_MAX_MSGLEN
  /\ pc = "cw_wait" /\ ret = "fail" /\ Oversize(bufs[fd]) /\ bufs[fd].recv < AGENT_MAX_MSGLEN

\* the declared total length, msglen as the code computes it, is one a
\* buffer can hold
InRange(p) == msglen(p) >= 4 /\ msglen(p) <= AGENT_MAX_MSGLEN

\* C17: a frame whose declared length (prefix + 4 in 32 bits) is below 4 or
\* above the maximum is rejected at its header: no connection stays in the
\* read set with four or more bytes buffered of such a frame, agent_query
\* reads no body byte of such a reply, and no buffer holding such a reply is
\* sent to a client.
C17_RejectedAtTheHeader ==
  /\ [](\A g \in read_set \cap ConnFds :
          (pc \in AqPcs /\ g = fd) \/ bufs[g].recv < 4 \/ InRange(bufs[g]))
  /\ [](pc = "aq_read" /\ first_done => InRange(bufs[fd]))
  /\ [](\A g \in write_set : InRange(bufs[g]))

\* the loop is back at select with a connection that has its header and one
\* more byte buffered of a frame that declares 8193 bytes
C17_Witness ==
  /\ pc = "select"
  /\ \E g \in read_set \cap ConnFds :
       bufs[g].recv = 5 /\ msglen(bufs[g]) = AGENT_MAX_MSGLEN + 1

\* C18: at most one helper runs and is tracked at any time (a helper is
\* spawned only when the one before it has ended, and a tracked pid is the
\* pid of the helper last spawned), and start_win32_helper called with both
\* descriptors valid does nothing: no spawn, no pipes, pid and descriptors
\* as they were.
C18_OneHelperAndNoOpWhenRunning ==
  /\ [][nspawn' > nspawn => helper.st \notin Live]_vars
  /\ [](win32_pid > 0 => win32_pid = helper.pid)
  /\ [][(pc = "recv" /\ pc' \in AqPcs /\ win32_in >= 0 /\ win32_out >= 0) =>
          /\ pc' = "aq_write"
          /\ UNCHANGED <<w32v, fds, nspawn, helper>>]_vars

\* a reply has been delivered and the next request is being written to the
\* same, only helper
C18_Witness ==
  /\ pc = "aq_write" /\ nspawn = 1 /\ helper.st = "up"
  /\ \E c \in 1..MaxConns : delivered[c] # <<>>

\* C19: the helper's two descriptors are both valid or both invalid in every
\* state between two steps of the program, whatever numbers pipe2 handed out
\* (neither is ever 0, the one value cleanup_win32 would leave alone);
\* start_win32_helper returns success with both valid, and the cleanup the
\* SIGCHLD handler runs for the helper leaves both invalid.
C19_HelperDescriptorsNeverHalfOpen ==
  /\ []((win32_in >= 0) = (win32_out >= 0))
  /\ [](win32_in # 0 /\ win32_out # 0)
  /\ [][(pc = "sh_init" /\ pc' = "aq_write") => win32_in' > 0 /\ win32_out' > 0]_vars
  /\ [][(HandlerStep /\ pc' # "exited") => win32_in' < 0 /\ win32_out' < 0]_vars

\* the handler has reaped the helper and invalidated both descriptors while
\* agent_query is reading the reply
C19_Witness ==
  /\ pc = "aq_read" /\ helper.st = "reaped"
  /\ win32_in < 0 /\ win32_out < 0 /\ win32_pid = 0

\* C20: every open connection is in exactly one of the read set and the
\* write set.  Its received count goes back to 0 only in the agent_send step
\* that sends the last byte of the reply, which also moves it to the read
\* set; its sent count goes back to 0 only when agent_query has forwarded the
\* request and returned the reply, which moves it to the write set; a send
\* that leaves reply bytes unsent keeps it in the write set with both counts
\* kept.
C20_OnePhaseAndCountersResetOnCompletion ==
  /\ [](\A g \in ConnFds : (g \in read_set) # (g \in write_set))
  /\ [][\A g \in ConnFds \cap DOMAIN bufs' :
          /\ (bufs[g].recv > 0 /\ bufs'[g].recv = 0) =>
               /\ pc = "send" /\ fd = g
               /\ bufs'[g].send = msglen(bufs'[g])
               /\ g \in read_set' \ write_set'
          /\ (bufs[g].send > 0 /\ bufs'[g].send = 0) =>
               /\ pc = "aq_read" /\ fd = g
               /\ helper.inq # <<>> /\ Head(helper.inq) = bufs'[g].tag
               /\ g \in write_set' \ read_set'
          /\ (pc = "send" /\ fd = g /\ bufs'[g].send > bufs[g].send) =>
               IF bufs'[g].send < msglen(bufs'[g])
               THEN g \in write_set' \ read_set' /\ bufs'[g].recv = bufs[g].recv
               ELSE g \in read_set' \ write_set' /\ bufs'[g].recv = 0]_vars

\* a connection that already got one whole reply is in the write set with
\* its second reply partly sent
C20_Witness ==
  /\ pc = "select"
  /\ \E g \in write_set :
       /\ bufs[g].send > 0 /\ bufs[g].send < msglen(bufs[g])
       /\ delivered[owner[g]] # <<>>

(***************************************************************************)
(* The order of the exchanges within one pass of the loop.                 *)
(***************************************************************************)
\* the connections of the running read pass whose exchange is already done
\* (a completed exchange moves the connection to the write set)
Served == {f \in write_set : \E i \in DOMAIN ready : ready[i] = f}

\* the place of f in the readiness order
Pos(f) == CHOOSE i \in DOMAIN ready : ready[i] = f

\* C21 (as the code has it): within one pass of the loop the exchanges with
\* the helper happen in ascending order of the connections' descriptors:
\* when agent_query is entered for a connection, every connection of this
\* pass already served has a lower descriptor.
C21_ServedInDescriptorOrder ==
  [][pc = "recv" /\ pc' \in AqPcs => \A f \in Served : f < fd]_vars

\* C21 (as stated): the exchanges happen in the order in which the sockets
\* became ready: when agent_query is entered for a connection, every
\* connection of this pass already served became ready before it.
C21_ServedInReadinessOrder ==
  [][pc = "recv" /\ pc' \in AqPcs => \A f \in Served : Pos(f) < Pos(fd)]_vars

\* an exchange is running for a connection that became ready before one
\* that was already served in this pass
C21_Witness ==
  /\ pc \in AqPcs
  /\ \E i \in DOMAIN ready : ready[i] = fd
  /\ \E f \in Served : f < fd /\ Pos(fd) < Pos(f)

(***************************************************************************)
(* The default launch with a terminal that goes away at any moment, under  *)
(* the progress the program and its surroundings give: the main flow takes *)
(* its next step, a pending SIGCHLD is delivered, and a select call that   *)
(* finds no descriptor ready for a whole second times out (main.c:569,     *)
(* 578-582).  Whether descriptors are ready is up to the clients.          *)
(***************************************************************************)
\* the default launch: no -b, no -d, no subcommand
TickInit == Init /\ ~opt_no_exit /\ chld_handler /\ subcommand_pid = 0

\* the controlling terminal goes away; the program sees it only through
\* open("/dev/tty") (main.c:527), which it calls from the poll alone, so the
\* loss is taken while the main flow is at the poll
TtyGoes ==
  /\ At("select") /\ tty_present
  /\ tty_present' = FALSE
  /\ UNCHANGED <<optv, w32v, pc, fd, setv, bufs, aqv, exitv, fds, helper, sub, sigchld,
                 owner, cntv, queries, call, delivered>>

\* With no connection open the history of the clients is forgotten, so that
\* clients may go on connecting and asking for ever (do_agent_loop's
\* while (1), main.c:561, has no bound on either).
Recycle ==
  /\ At("select") /\ bufs = <<>> /\ nconn > 0
  /\ nconn' = 0 /\ nreq' = 0
  /\ reqs' = [c \in 1..MaxConns |-> 0]
  /\ queries' = <<>>
  /\ delivered' = [c \in 1..MaxConns |-> <<>>]
  /\ hist' = [hist EXCEPT !.over = NoTag]
  /\ UNCHANGED <<optv, w32v, pc, fd, setv, bufs, aqv, exit_status, exit_path, fs,
                 tty_gone, fds, helper, envv, owner, nspawn>>

\* the steps of the main flow after select has returned ready descriptors
Proceed ==
  \/ RecvClosed \/ RecvBytes \/ SendFail \/ SendBytes
  \/ StartSpawn \/ StartInit
  \/ AqWrite \/ AqWriteEpipe \/ AqWriteGone
  \/ AqRead \/ AqReadEof \/ AqReadGone
  \/ CleanupWait

\* connections open at a time in the runs with a terminal that goes away
TickOpen == 1

\* select returns ready descriptors, with at most TickOpen connections open
TickReady == SelectReady /\ Cardinality(DOMAIN bufs') <= TickOpen

TickNext ==
  \/ TickReady \/ SelectFail \/ TtyGoneTick
  \/ Proceed
  \/ SigChld \/ ExitSignal \/ HelperDies
  \/ TtyGoes \/ Recycle

\* the timeout tick that finds the terminal gone.  A tick that finds it
\* changes nothing, and whether the terminal goes away is not up to the
\* program.
LostTick == ~tty_present /\ TtyGoneTick

TickSpec ==
  /\ TickInit /\ [][TickNext]_vars
  /\ WF_vars(Proceed) /\ WF_vars(SigChld) /\ WF_vars(LostTick)

\* the terminal is gone and the proxy of the default launch still runs
TtyLost == ~tty_present /\ ~opt_no_exit /\ Running

\* C22 (as the code has it): in the default launch, a timeout tick taken
\* after the terminal has gone away exits with status 0 after full cleanup
\* (descriptors closed, socket and directory removed); once the terminal
\* has gone the proxy runs such a tick, or exits otherwise, provided select
\* eventually stops finding descriptors ready and the blocking waitpid of
\* cleanup_win32 (main.c:125) always returns.
C22_ExitsOnTheFirstTimeoutTick ==
  /\ [][TtyLost /\ pc = "select" /\ sigchld = {} /\ pc' = "exited" /\ exit_path' = "tty"
        => exit_status' = 0 /\ fds' = {} /\ fs' \cap start.made = {}]_vars
  /\ [][TtyLost /\ pc = "select" /\ pc' = "select" /\ Running' => ~TtyGoneTick]_vars
  /\ (<>[][~TickReady]_vars /\ []<>(pc # "cw_wait")) => (TtyLost ~> ~Running)

\* C22 (as stated, any exit taken for the one on the tick): once the
\* terminal has gone away the proxy of the default launch eventually exits,
\* whatever the client activity.
C22_ExitsWhateverTheClientsDo == TtyLost ~> ~Running

\* the proxy has exited on a timeout tick that found the terminal gone,
\* after clients had their requests forwarded
C22_Witness ==
  /\ pc = "exited" /\ exit_path = "tty" /\ exit_status = 0
  /\ ~tty_present /\ ~opt_no_exit
  /\ nreq > 0 /\ nspawn > 0

(***************************************************************************)
(* The terminal check with -b (opt_no_exit).                               *)
(***************************************************************************)
\* the check has found the terminal gone and recorded it (main.c:534)
TtyRecorded == opt_no_exit /\ ~tty_gone /\ tty_gone'

\* what TtyRecorded leaves of the claim once the exits are set aside: the
\* helper is no longer alive when the terminal is recorded as gone, the
\* connections are as they were, and no kill follows a recorded loss
TtyRecordedKeeps ==
  /\ [][TtyRecorded => /\ helper'.st \notin Live
                        /\ UNCHANGED <<bufs, read_set, write_set, owner, fds>>]_vars
  /\ [][opt_no_exit /\ tty_gone => pc' # "tty_kill"]_vars

\* C23: with -b, finding the terminal gone never ends the proxy: the check
\* signals the tracked helper, records the terminal as gone, leaves the
\* connections as they are, and is not made again.
C23_NoExitModeSurvivesTerminalLoss ==
  /\ [](opt_no_exit => exit_path \notin {"tty", "kill"})
  /\ [][pc = "tty_kill" /\ pc' = "select" => TtyRecorded]_vars
  /\ TtyRecordedKeeps

\* with -b and a connection accepted, the check found the terminal gone and
\* its kill failed: the proxy has exited with status 1
C23_Witness ==
  /\ opt_no_exit /\ ~tty_present
  /\ pc = "exited" /\ exit_path = "kill" /\ exit_status = 1
  /\ nconn > 0

(***************************************************************************)
(* Launch with -r on a socket that answers.                                *)
(***************************************************************************)
\* the positions of the main flow inside do_agent_loop
LoopPcs == {"select", "recv", "send", "tty_kill"} \cup AqPcs

\* C24: with -r and a path at which connect succeeds the socket is reused:
\* the program binds nothing and makes no directory, registers nothing for
\* cleanup, never enters do_agent_loop (so starts no helper), emits
\* SSH_AUTH_SOCK alone, and without a subcommand returns 0 (a failing
\* library call or an exit signal aside).
C24_ReuseOnlyPointsAtTheSocket ==
  /\ [][/\ pc = "m_reuse" /\ start.opt_reuse /\ start.sockpath # ""
        /\ KindAt(sun_path(start.sockpath)) = "live"
        => start'.reused \/ exit_path' \in {"syscall", "signal"}]_vars
  /\ [](start.reused =>
          /\ start.made = {} /\ cleanup_tempdir = "" /\ cleanup_sockpath = ""
          /\ sockfd \notin fds
          /\ pc \notin LoopPcs
          /\ nspawn = 0 /\ helper = NoHelper /\ win32_pid = 0
          /\ start.emits \subseteq {"SSH_AUTH_SOCK"}
          /\ fs = {p \in Foreign : start.kind[p] # "absent"})
  /\ [](start.reused /\ start.mode # "subcommand" /\ pc = "exited" =>
          \/ exit_path = "return" /\ exit_status = 0 /\ start.emits = {"SSH_AUTH_SOCK"}
          \/ exit_path = "syscall" /\ exit_status = 1
          \/ exit_path = "signal" /\ exit_status = 0)

\* a daemon launch with -r has found a socket that answers at the path
\* taken from SSH_AUTH_SOCK, emitted the socket variable and returned 0
C24_Witness ==
  /\ start.reused /\ start.from_env /\ start.mode = "daemon"
  /\ pc = "exited" /\ exit_path = "return" /\ exit_status = 0
  /\ start.emits = {"SSH_AUTH_SOCK"}

(***************************************************************************)
(* The helper program: agent_query of win32/agent.c (lines 77-145), called *)
(* with a request frame in buf.  Of buf the model keeps the first five     *)
(* bytes (head), the number of bytes of the frame that lie in it (size)    *)
(* and whose bytes they are (holds).  hPipe is the handle of the           *)
(* credential service's named pipe, out the helper's channel to the proxy  *)
(* (its standard output), failed the call that failed.                     *)
(***************************************************************************)
\* win32/agent.c:79
SSH_AGENT_FAILURE == 5

\* win32/agent.c:79 with the total size for prefix (a faulty variant, told
\* apart by C25_PrefixCountsThePayload)
reply_error_TotalPrefix == <<0, 0, 0, 5, SSH_AGENT_FAILURE>>
\* win32/agent.c:79: static const char reply_error[5]
reply_error == <<0, 0, 0, 1, SSH_AGENT_FAILURE>>

\* ntohl of a prefix below 2^31
ntohl(b) == ((b[1] * 256 + b[2]) * 256 + b[3]) * 256 + b[4]

\* msglen() of the bytes at the start of a buffer
MsgLenOf(head) == msglen([pfx |-> SubSeq(head, 1, 4)])

\* memcpy that stops one byte early (a faulty variant, told apart by
\* C26_FailuresAnswerWithAFailureFrame)
memcpy_OneShort(dst, src, n) ==
  [i \in 1..Len(dst) |-> IF i <= n - 1 /\ i <= Len(src) THEN src[i] ELSE dst[i]]
\* memcpy(dst, src, n) on the first bytes of dst, for n up to sizeof(src)
memcpy(dst, src, n) ==
  [i \in 1..Len(dst) |-> IF i <= n /\ i <= Len(src) THEN src[i] ELSE dst[i]]

\* the message types a frame of the protocol may carry in its fifth byte:
\* requests (identities, sign) and answers (failure, success, identities)
ReqTypes == {11, 13}
RepTypes == {SSH_AGENT_FAILURE, 6, 12}

\* a frame of n payload bytes as its sender writes it: the prefix, then the
\* payload, whose first byte is the type (none when n = 0)
Frame(n, type, who) ==
  [head |-> Be32(n) \o <<IF n > 0 THEN type ELSE 0>>, size |-> 4 + n, holds |-> who]

\* the helper's main has read a request of any size up to the limit into
\* buf and calls agent_query; the proxy is left in its initial state
AgentInit ==
  /\ \E n \in 0..(AGENT_MAX_MSGLEN - 4), t \in ReqTypes :
       agent = [pc |-> "open", buf |-> Frame(n, t, "request"), hPipe |-> "invalid",
                out |-> TRUE, failed |-> "none"]
  /\ opt_no_exit = FALSE /\ subcommand_pid = 0 /\ chld_handler = TRUE
  /\ sub = [st |-> "none", ws |-> 0]
  /\ cleanup_tempdir = TempDir /\ cleanup_sockpath = SockPath
  /\ fs = {SockPath, TempDir}
  /\ start = [mode |-> "loop", sockpath |-> SockPath, opt_reuse |-> FALSE,
               from_env |-> FALSE, reused |-> FALSE, kind |-> <<>>, made |-> fs,
               emits |-> {"SSH_AUTH_SOCK", "SSH_AGENT_PID"}]
  /\ tty_gone = FALSE
  /\ win32_pid = 0 /\ win32_in = -1 /\ win32_out = -1
  /\ pc = "select" /\ fd = 0
  /\ read_set = {sockfd} /\ write_set = {}
  /\ do_read_set = {} /\ do_write_set = {} /\ ready = <<>>
  /\ bufs = <<>>
  /\ rem = 0 /\ off = 0 /\ first_done = FALSE /\ ret = "none"
  /\ exit_status = -1 /\ exit_path = "none"
  /\ fds = {0, 2, sockfd}
  /\ helper = NoHelper
  /\ sigchld = {}
  /\ tty_present = TRUE
  /\ owner = <<>> /\ nconn = 0 /\ nreq = 0 /\ nspawn = 0
  /\ reqs = [c \in 1..MaxConns |-> 0]
  /\ queries = <<>>
  /\ call = NoCall
  /\ delivered = [c \in 1..MaxConns |-> <<>>]
  /\ hist = NoHist

\* everything but the helper program
proxyv == <<opt_no_exit, subcommand_pid, chld_handler, cleanup_tempdir, cleanup_sockpath,
            start, w32v, pc, fd, setv, bufs, aqv, exitv, fds, helper, envv, owner, cntv,
            queries, delivered>>

\* win32/agent.c:109, 115, 125, 139: memcpy(buf, reply_error,
\* msglen(reply_error)); return.  Nothing is closed.
AgentFail(what) ==
  agent' = [agent EXCEPT
              !.buf = [head |-> memcpy(agent.buf.head, reply_error, MsgLenOf(reply_error)),
                       size |-> Len(reply_error), holds |-> "error"],
              !.pc = "returned", !.failed = what]

\* win32/agent.c:97-118: CreateFile until the pipe is had; an error other
\* than ERROR_PIPE_BUSY, or a WaitNamedPipe that fails, ends the call
AgentOpen ==
  /\ agent.pc = "open"
  /\ \/ agent' = [agent EXCEPT !.hPipe = "open", !.pc = "write"]
     \/ AgentFail("open")
     \/ AgentFail("wait")
  /\ UNCHANGED proxyv

\* win32/agent.c:122-127: WriteFile(hPipe, buf, msglen(buf), ...)
AgentWrite ==
  /\ agent.pc = "write"
  /\ \/ agent' = [agent EXCEPT !.pc = "read"]
     \/ AgentFail("write")
  /\ UNCHANGED proxyv

\* win32/agent.c:129-143: ReadFile(hPipe, buf, AGENT_MAX_MSGLEN, ...) until
\* it succeeds.  It succeeds with a whole answer, fails with
\* ERROR_MORE_DATA having filled buf with the first AGENT_MAX_MSGLEN bytes
\* of a longer one (the next call then stores what follows at the start of
\* buf), or fails otherwise.
AgentRead ==
  /\ agent.pc = "read"
  /\ \/ \E m \in {1, AGENT_MAX_MSGLEN - 4}, t \in RepTypes :
          /\ agent.buf.holds # "part"
          /\ agent' = [agent EXCEPT !.buf = Frame(m, t, "reply"),
                                    !.hPipe = "closed", !.pc = "returned"]
     \/ \E t \in RepTypes :
          /\ agent.buf.holds # "part"
          /\ agent' = [agent EXCEPT
                         !.buf = [Frame(AGENT_MAX_MSGLEN - 3, t, "part")
                                    EXCEPT !.size = AGENT_MAX_MSGLEN]]
     \/ /\ agent.buf.holds = "part"
        /\ \E b \in {0, 255} :
             agent' = [agent EXCEPT
                         !.buf = [head |-> <<b, b, b, b, b>>, size |-> 1, holds |-> "part"],
                         !.hPipe = "closed", !.pc = "returned"]
     \/ AgentFail("read")
  /\ UNCHANGED proxyv

AgentNext == AgentOpen \/ AgentWrite \/ AgentRead

AgentSpec == AgentInit /\ [][AgentNext]_vars

\* buf holds a frame from its first byte
HoldsFrame == agent.buf.holds \in {"request", "reply", "error"}

C27_HelperExitNeverEndsTheProxy ==
  [][(pc \in {"aq_write", "aq_read"} /\ subcommand_pid = 0 /\ pc' = "exited")
       => (exit_path' = "signal")]_vars

\* part of the request is written, cleanup_signal has reaped the helper and
\* closed both descriptors, and the write loop is about to call write again
C27_Witness ==
  /\ pc = "aq_write" /\ off > 0 /\ rem > 0
  /\ chld_handler /\ subcommand_pid = 0
  /\ helper.st = "reaped" /\ sigchld = {}
  /\ win32_out = -1 /\ win32_in = -1 /\ win32_pid = 0

\* the pids of the children the proxy knows: its helpers and the subcommand
KnownPids == {SpawnedPid(n) : n \in 0..MaxSpawns}

\* C28: the proxy ends on the unknown-child branch (status 55) only when a
\* child that is neither a helper it spawned nor the subcommand has exited;
\* the exit of a helper never leads there, also when cleanup_win32(1) has
\* reaped the helper before cleanup_signal runs.
C28_Status55OnlyForAStranger ==
  (pc = "exited" /\ exit_path = "unknown_child") =>
     /\ exit_status = UNKNOWN_CHILD_STATUS
     /\ \E p \in hist.chld : p \notin KnownPids

\* the first helper was reaped by cleanup_win32(1) after a broken pipe, a
\* second one runs, and the notification of the first one's exit has ended
\* the proxy with status 55
C28_Witness ==
  /\ pc = "exited" /\ exit_status = UNKNOWN_CHILD_STATUS
  /\ hist.chld = {SpawnedPid(1)} /\ hist.neither
  /\ nspawn = 2 /\ helper.pid = SpawnedPid(2) /\ helper.st \in Live

\* C29: the write is retried on a restarted helper only when no byte of the
\* request was written before, and the retry sends the frame from its first
\* byte: whenever a helper is spawned the write offset is 0 and the whole
\* frame is still to be written, the write phase on a helper just started
\* begins at the first byte, and what has been written is always the frame's
\* first bytes.
C29_NewHelperGetsTheFrameFromItsStart ==
  /\ [][pc = "aq_write" /\ pc' = "sh_spawn" =>
          /\ off = 0 /\ ~first_done /\ rem = msglen(bufs[fd])
          /\ off' = 0 /\ rem' = rem /\ bufs' = bufs /\ fd' = fd]_vars
  /\ [][nspawn' # nspawn => off = 0 /\ off' = 0]_vars
  /\ [][pc = "sh_init" /\ pc' = "aq_write" =>
          off' = 0 /\ rem' = msglen(bufs'[fd']) /\ bufs'[fd'] = bufs[fd]]_vars
  /\ [](pc = "aq_write" /\ msglen(bufs[fd]) # Huge => off + rem = msglen(bufs[fd]))

\* the second helper, started after a broken pipe on the first write, has
\* been written the first bytes of the request and the rest is to follow
C29_Witness ==
  /\ pc = "aq_write" /\ call.restarts = 1
  /\ off > 0 /\ rem > 0
  /\ helper.pid = SpawnedPid(2) /\ helper.st = "up"

\* C30: a helper is spawned only when the one spawned before it has exited
\* and been reaped, and whenever the helper state is invalid (pid 0, outside
\* cleanup_win32's own wait) no helper is alive or waiting to be reaped: so
\* no two helpers of the proxy are ever alive together, whichever path
\* invalidated the state.
C30_SpawnOnlyAfterThePreviousIsReaped ==
  /\ [][nspawn' # nspawn =>
          /\ helper.st \in {"none", "reaped"}
          /\ win32_pid = 0 /\ win32_in < 0 /\ win32_out < 0
          /\ helper'.pid # helper.pid /\ helper'.pid = win32_pid']_vars
  /\ [](Running /\ win32_pid = 0 => helper.st \in {"none", "reaped"})

\* the first helper has ended and been reaped, and the helper for the next
\* request is starting while another connection holds a request
C30_Witness ==
  /\ pc = "sh_init" /\ nspawn = 2 /\ call.restarts = 0
  /\ helper.st = "starting" /\ win32_pid = SpawnedPid(2)
  /\ \E g \in DOMAIN bufs : bufs[g].recv > 0 /\ bufs[g].send = 0 /\ g # fd

(***************************************************************************)
(* Helpers after the terminal check of -b has stopped one.                 *)
(***************************************************************************)
\* with -b the loss of the terminal is recorded and the check has signalled
\* the helper it found tracked
Stopped == opt_no_exit /\ tty_gone /\ hist.term > 0

OpenC(c) == \E g \in ConnFds : owner[g] = c

\* C32: when a recv call leaves a connection with more bytes buffered than
\* its frame declares, the same step closes the connection and takes it out
\* of both sets, agent_query is not entered and the helper is given nothing,
\* and that frame is never forwarded; recv is never called on a connection
\* that is in the write set, whose received count stays as it is until the
\* send that completes the reply puts the connection back in the read set
\* with the count at 0.
C32_ExcessDropsAndSendingIsNotRead ==
  /\ [][hist'.over # hist.over =>
          /\ pc = "recv" /\ pc' \notin AqPcs
          /\ fd \in ConnFds /\ fd \notin ConnFds' /\ fd \notin fds'
          /\ fd \notin read_set' \cup write_set'
          /\ helper' = helper /\ queries' = queries]_vars
  /\ [](hist.over # NoTag => hist.over \notin DOMAIN queries)
  /\ [](pc = "recv" => fd \in read_set \ write_set)
  /\ [][\A g \in write_set \cap ConnFds \cap ConnFds' :
          \/ bufs'[g].recv = bufs[g].recv /\ g \in write_set' \ read_set'
          \/ /\ pc = "send" /\ fd = g /\ bufs'[g].recv = 0
             /\ bufs'[g].send = msglen(bufs'[g])
             /\ g \in read_set' \ write_set']_vars

\* a connection was closed for holding one frame and more in its buffer and
\* its frame was not forwarded, while another connection has part of its
\* reply sent
C32_Witness ==
  /\ hist.over # NoTag /\ ~OpenC(hist.over[1])
  /\ hist.over \notin DOMAIN queries
  /\ \E g \in write_set : bufs[g].send > 0 /\ bufs[g].send < msglen(bufs[g])

(***************************************************************************)
(* From a complete request to its reply.  The runs are those of TickSpec   *)
(* with the progress the program gives by itself: a call that select has   *)
(* announced, or that finds the helper ended, returns; a pending SIGCHLD   *)
(* is delivered; a select call that finds nothing ready times out.  A      *)
(* call that waits for the helper (main.c:350, 420, 125) has no timeout    *)
(* and returns when the helper lets it.                                    *)
(***************************************************************************)
\* the main flow is in a call that only the running helper can end: the
\* read of the initialization byte, the read of the reply, the waitpid
HelperBlocks ==
  /\ pc \in {"sh_init", "aq_read", "cw_wait"}
  /\ helper.st \in Live
  /\ pc # "cw_wait" => win32_in >= 0

LiveSpec ==
  /\ TickInit /\ [][TickNext]_vars
  /\ WF_vars(Proceed /\ ~HelperBlocks) /\ WF_vars(SigChld) /\ WF_vars(LostTick)

\* a request of connection c has been received completely and its reply
\* has not been sent completely
Awaiting(c) ==
  \E g \in ConnFds : owner[g] = c /\ ((pc \in AqPcs /\ fd = g) \/ g \in write_set)
\* every request connection c began has had its whole reply sent, and the
\* connection is back in the read set with an empty buffer
Answered(c) ==
  \E g \in ConnFds \cap read_set :
    /\ owner[g] = c /\ bufs[g].recv = 0 /\ reqs[c] > 0
    /\ Len(delivered[c]) = reqs[c]
    /\ delivered[c][reqs[c]].tag = <<c, reqs[c]>>
    /\ delivered[c][reqs[c]].n = delivered[c][reqs[c]].len
\* select reports the socket of connection c writable
Writable(c) == TickReady /\ \E g \in do_write_set' : owner[g] = c

\* C33 (as the code has it): a connection whose request has been received
\* completely gets the complete reply and is back in the read set with an
\* empty buffer, or is closed, provided every call that waits for the helper
\* returns and the client's socket is found writable again and again while
\* the reply waits; until then the connection is closed only when the
\* process exits, the send fails, or the helper has ended, could not be
\* started or sent a frame that was refused.
C33_AnsweredOrClosed ==
  /\ \A c \in 1..MaxConns :
       ([]<>(~HelperBlocks) /\ SF_vars(Writable(c)))
         => (Awaiting(c) ~> (Answered(c) \/ ~OpenC(c)))
  /\ [][\A c \in 1..MaxConns : Awaiting(c) /\ ~OpenC(c)' =>
          \/ pc' = "exited"
          \/ pc = "send"
          \/ pc \in AqPcs /\ helper'.st \notin Live]_vars

\* C33 (as stated): whatever the helper and the client do, the connection
\* gets its complete reply or is eventually closed.
C33_NeverLeftWaiting ==
  \A c \in 1..MaxConns : Awaiting(c) ~> (Answered(c) \/ ~OpenC(c))

\* the second request of a connection has been answered completely and
\* the connection is ready for the next
C33_Witness ==
  /\ pc = "select"
  /\ \E c \in 1..MaxConns : Answered(c) /\ reqs[c] = 2

====
